---- MODULE Spec2Model ----
(***************************************************************************)
(* Challenge validation core of the ACME certificate authority             *)
(* (acme/challenge.go): Challenge.Validate, the four verifiers, the three  *)
(* attestation formats, storeError and KeyAuthorization, over a store that *)
(* holds one challenge record and its authorization record; the server     *)
(* bootstrap helper (ca/bootstrap.go) and the SCEP GetCACert handler.      *)
(*                                                                         *)
(* Strings that the code cuts, joins or compares are sequences of atoms    *)
(* (<<"T1", ".", "b64(", "h1", ")">>); hashes and encodings are injective  *)
(* constructors that change the representation.                            *)
(***************************************************************************)
EXTENDS Integers, Sequences, FiniteSets, TLC

VARIABLES
    db,     \* the challenge record held by the store (DB interface)
    azdb,   \* the authorization record held by the store
    ch,     \* ch[c]: the *Challenge object caller c passes to Validate
    last,   \* observation of the latest step (history variable)
    created, \* the challenge as the order subsystem created it (history variable)
    base,   \* the *http.Server handed to BootstrapServer
    boot,   \* observation of the latest BootstrapServer call (history variable)
    scep    \* the latest SCEP GET request and the response written for it

vars == <<db, azdb, ch, last, created, base, boot, scep>>

----------------------------------------------------------------------------
(* Statuses and challenge types *)

StatusPending == "pending"
StatusValid == "valid"
StatusInvalid == "invalid"
StatusProcessing == "processing"
StatusDeactivated == "deactivated"
Statuses == {StatusPending, StatusValid, StatusInvalid, StatusProcessing, StatusDeactivated}

HTTP01 == "http-01"
DNS01 == "dns-01"
TLSALPN01 == "tls-alpn-01"
DEVICEATTEST01 == "device-attest-01"
ChallengeTypes == {HTTP01, DNS01, TLSALPN01, DEVICEATTEST01}
\* a type string no case of Validate's switch matches
UnknownType == "email-reply-00"

Callers == {"A", "B"}

----------------------------------------------------------------------------
(* Errors (acme.Error): problem type, detail, HTTP status, subproblems *)

ErrorConnectionType == "connection"
ErrorDNSType == "dns"
ErrorRejectedIdentifierType == "rejectedIdentifier"
ErrorBadAttestationStatementType == "badAttestationStatement"
ErrorMalformedType == "malformed"
ErrorServerInternalType == "serverInternal"

\* the nil *Error / nil error
NoError == [Type |-> "", Detail |-> "", Status |-> 0, Subproblems |-> <<>>]

NewError(type, detail) ==
    [Type |-> type, Detail |-> detail,
     Status |-> IF type = ErrorServerInternalType THEN 500 ELSE 400,
     Subproblems |-> <<>>]

WrapError(type, detail) == NewError(type, detail)

NewErrorISE(detail) == NewError(ErrorServerInternalType, detail)

WrapErrorISE(detail) == NewErrorISE(detail)

NewSubproblemWithIdentifier(type, idType, idValue, detail) ==
    [Type |-> type, Detail |-> detail, IdType |-> idType, IdValue |-> idValue]

AddSubproblems(err, sub) == [err EXCEPT !.Subproblems = @ \o <<sub>>]

----------------------------------------------------------------------------
(* Tokens, keys, hashes, encodings *)

Token1 == <<"T1">>

\* account keys; the thumbprint of kbad cannot be computed
JWKs == {"k1", "k2", "kbad"}

ThumbprintErr(jwk) == jwk = "kbad"

\* jwk.Thumbprint(crypto.SHA256): the raw digest bytes
Thumbprint(jwk) ==
    CASE jwk = "k1" -> <<"h1">>
      [] jwk = "k2" -> <<"h2">>
      [] OTHER -> <<>>

\* base64.RawURLEncoding.EncodeToString
B64(bytes) == <<"b64(">> \o bytes \o <<")">>

\* sha256.Sum256
SHA256(bytes) == <<"sha256(">> \o bytes \o <<")">>

\* clock.Now() instants and their time.RFC3339 text; t0 is an earlier run's
Instants == {"t1"}

FormatRFC3339(t) ==
    CASE t = "t0" -> "2023-01-01T00:00:00Z"
      [] t = "t1" -> "2023-01-01T00:00:01Z"

KeyAuthorization_TokenOnly(token, jwk) ==
    IF ThumbprintErr(jwk)
    THEN [err |-> WrapErrorISE("error generating JWK thumbprint"), val |-> <<>>]
    ELSE [err |-> NoError, val |-> token \o <<".">>]

\* KeyAuthorization: [err, val]
KeyAuthorization(token, jwk) ==
    IF ThumbprintErr(jwk)
    THEN [err |-> WrapErrorISE("error generating JWK thumbprint"), val |-> <<>>]
    ELSE [err |-> NoError, val |-> token \o <<".">> \o B64(Thumbprint(jwk))]

\* keyAuthDigest: the thumbprint bytes are formatted with %s as they are
keyAuthDigest(jwk, token) ==
    [err |-> IF ThumbprintErr(jwk) THEN NewError("thumbprint", "thumbprint failed") ELSE NoError,
     val |-> SHA256(token \o <<".">> \o Thumbprint(jwk))]

----------------------------------------------------------------------------
(* Identifier values and IP addresses *)

ValueDNS == <<"example.com">>
ValueWildcard == <<"*.", "example.com">>
ValueIP4 == <<"192.0.2.5">>
ValueIP6 == <<"2001:db8::1">>
ValueIP4in6 == <<"::ffff:192.0.2.5">>
ValueDevice == <<"SN123">>

\* net.ParseIP: the 16-byte form, <<>> for nil
ParseIP(value) ==
    CASE value = ValueIP4 -> <<0, 0, 0, 0, 0, 0, 0, 0, 0, 0, 255, 255, 192, 0, 2, 5>>
      [] value = ValueIP4in6 -> <<0, 0, 0, 0, 0, 0, 0, 0, 0, 0, 255, 255, 192, 0, 2, 5>>
      [] value = ValueIP6 -> <<32, 1, 13, 184, 0, 0, 0, 0, 0, 0, 0, 0, 0, 0, 0, 1>>
      [] OTHER -> <<>>

\* ip.To4() != nil for a 16-byte address
IsIP4(ip) ==
    /\ Len(ip) = 16
    /\ \A i \in 1..10 : ip[i] = 0
    /\ ip[11] = 255 /\ ip[12] = 255

\* http01ChallengeHost
http01ChallengeHost(value) ==
    LET ip == ParseIP(value)
    IN  IF ip # <<>> /\ ~IsIP4(ip) THEN <<"[">> \o value \o <<"]">> ELSE value

InsecurePortHTTP01 == 0
InsecurePortTLSALPN01 == 0

DecDigits == <<"0", "1", "2", "3", "4", "5", "6", "7", "8", "9">>
hexit == <<"0", "1", "2", "3", "4", "5", "6", "7", "8", "9", "a", "b", "c", "d", "e", "f">>

\* uitoa (also strconv.Itoa for a non-negative value)
RECURSIVE uitoa(_)
uitoa(val) ==
    IF val < 10 THEN <<DecDigits[val + 1]>>
    ELSE uitoa(val \div 10) \o <<DecDigits[(val % 10) + 1]>>

RECURSIVE Nibbles(_, _)
Nibbles(ip, i) ==
    IF i = 0 THEN <<>>
    ELSE <<hexit[(ip[i] % 16) + 1], ".", hexit[(ip[i] \div 16) + 1], ".">> \o Nibbles(ip, i - 1)

\* reverseAddr
reverseAddr(ip) ==
    IF IsIP4(ip)
    THEN uitoa(ip[16]) \o <<".">> \o uitoa(ip[15]) \o <<".">> \o uitoa(ip[14]) \o <<".">>
         \o uitoa(ip[13]) \o <<".in-addr.arpa.">>
    ELSE Nibbles(ip, Len(ip)) \o <<"ip6.arpa.">>

serverName_Verbatim(chv) == chv.Value

\* serverName
serverName(chv) ==
    LET ip == ParseIP(chv.Value)
    IN  IF ip # <<>> THEN reverseAddr(ip) ELSE chv.Value

\* the URL http01Validate fetches
http01URL(chv) ==
    <<"http://">> \o http01ChallengeHost(chv.Value)
    \o (IF InsecurePortHTTP01 # 0 THEN <<":">> \o uitoa(InsecurePortHTTP01) ELSE <<>>)
    \o <<"/.well-known/acme-challenge/">> \o chv.Token

\* net.JoinHostPort(ch.Value, port)
JoinHostPort(host, port) ==
    IF \E i \in 1..Len(host) : host[i] \in {"2001:db8::1", "::ffff:192.0.2.5"}
    THEN <<"[">> \o host \o <<"]:">> \o port
    ELSE host \o <<":">> \o port

----------------------------------------------------------------------------
(* Store operations as seen by one call *)

\* one network or store call: its name, its target, whether it succeeded
Op(name, arg, ok) == [op |-> name, arg |-> arg, ok |-> ok]

\* outcomes of the store calls of one Validate call: each of the calls the
\* code makes may be the one that fails
StoreOutcome(getAzOk, updAzOk, updChOk) ==
    [getAzOk |-> getAzOk, updAzOk |-> updAzOk, updChOk |-> updChOk]

StoreOutcomes(type) ==
    IF type = "device-attest-01"
    THEN {StoreOutcome(TRUE, TRUE, TRUE), StoreOutcome(FALSE, TRUE, TRUE),
          StoreOutcome(TRUE, FALSE, TRUE), StoreOutcome(TRUE, TRUE, FALSE)}
    ELSE {StoreOutcome(TRUE, TRUE, TRUE), StoreOutcome(TRUE, TRUE, FALSE)}

\* what a verifier leaves behind: the challenge object, the authorization
\* object, the returned error and the network/store calls made, in order
Result(chv, azv, ret, ops) == [ch |-> chv, az |-> azv, ret |-> ret, ops |-> ops]

Did(ops, name) == \E i \in 1..Len(ops) : ops[i].op = name

Wrote(ops, name) == \E i \in 1..Len(ops) : ops[i].op = name /\ ops[i].ok

storeError_ReturnsError(chv, azv, ops, markInvalid, err, st) ==
    LET c2 == [chv EXCEPT !.Error = err,
                          !.Status = IF markInvalid THEN StatusInvalid ELSE @]
    IN  Result(c2, azv,
               IF st.updChOk THEN err
               ELSE WrapErrorISE("failure saving error to acme challenge"),
               ops \o <<Op("UpdateChallenge", <<>>, st.updChOk)>>)

storeError_KeepError(chv, azv, ops, markInvalid, err, st) ==
    LET c2 == [chv EXCEPT !.Status = IF markInvalid THEN StatusInvalid ELSE @]
    IN  Result(c2, azv,
               IF st.updChOk THEN NoError
               ELSE WrapErrorISE("failure saving error to acme challenge"),
               ops \o <<Op("UpdateChallenge", <<>>, st.updChOk)>>)

storeError_AlwaysInvalid(chv, azv, ops, markInvalid, err, st) ==
    LET c2 == [chv EXCEPT !.Error = err, !.Status = StatusInvalid]
    IN  Result(c2, azv,
               IF st.updChOk THEN NoError
               ELSE WrapErrorISE("failure saving error to acme challenge"),
               ops \o <<Op("UpdateChallenge", <<>>, st.updChOk)>>)

storeError(chv, azv, ops, markInvalid, err, st) ==
    LET c2 == [chv EXCEPT !.Error = err,
                          !.Status = IF markInvalid THEN StatusInvalid ELSE @]
    IN  Result(c2, azv,
               IF st.updChOk THEN NoError
               ELSE WrapErrorISE("failure saving error to acme challenge"),
               ops \o <<Op("UpdateChallenge", <<>>, st.updChOk)>>)

MarkValid_NoTimestamp(chv, t) ==
    [chv EXCEPT !.Status = StatusValid, !.Error = NoError]

MarkValid_KeepError(chv, t) ==
    [chv EXCEPT !.Status = StatusValid, !.ValidatedAt = FormatRFC3339(t)]

MarkValid_ClearsToken(chv, t) ==
    [chv EXCEPT !.Status = StatusValid, !.Error = NoError,
                !.ValidatedAt = FormatRFC3339(t), !.Token = <<>>]

\* ch.Status = StatusValid; ch.Error = nil; ch.ValidatedAt = clock.Now().Format(...)
MarkValid(chv, t) ==
    [chv EXCEPT !.Status = StatusValid, !.Error = NoError,
                !.ValidatedAt = FormatRFC3339(t)]

\* the closing db.UpdateChallenge of a success path
UpdateValid_SwallowFailure(chv, azv, ops, t, st, detail) ==
    Result(MarkValid(chv, t), azv, NoError, ops \o <<Op("UpdateChallenge", <<>>, st.updChOk)>>)

UpdateValid(chv, azv, ops, t, st, detail) ==
    Result(MarkValid(chv, t), azv,
           IF st.updChOk THEN NoError ELSE WrapErrorISE(detail),
           ops \o <<Op("UpdateChallenge", <<>>, st.updChOk)>>)

----------------------------------------------------------------------------
(* http-01 *)

Whitespace == {" ", "\n", "\t", "\r"}

RECURSIVE TrimLeft(_)
TrimLeft(s) == IF Len(s) > 0 /\ Head(s) \in Whitespace THEN TrimLeft(Tail(s)) ELSE s

RECURSIVE TrimRight(_)
TrimRight(s) ==
    IF Len(s) > 0 /\ s[Len(s)] \in Whitespace
    THEN TrimRight(SubSeq(s, 1, Len(s) - 1)) ELSE s

TrimSpace_LeftOnly(s) == TrimLeft(s)

\* strings.TrimSpace
TrimSpace(s) == TrimRight(TrimLeft(s))

KA1 == Token1 \o <<".">> \o B64(<<"h1">>)
KA2 == Token1 \o <<".">> \o B64(<<"h2">>)

Bodies == {KA1, KA1 \o <<"\n">>, <<" ">> \o KA1, KA2, <<>>, Token1 \o <<".", "h1">>}

\* vc.Get outcomes: a transport error, or a response whose body can be read
\* or not
HttpGets ==
    {[err |-> TRUE, StatusCode |-> 0, readErr |-> FALSE, Body |-> <<>>]}
    \cup [err : {FALSE}, StatusCode : {400, 404}, readErr : {FALSE}, Body : {KA1}]
    \cup [err : {FALSE}, StatusCode : {200, 399}, readErr : {TRUE}, Body : {<<>>}]
    \cup [err : {FALSE}, StatusCode : {200, 399}, readErr : {FALSE}, Body : Bodies]

http01Validate(chv, azv, jwk, get, t, st) ==
    LET ops == <<Op("Get", http01URL(chv), ~get.err)>>
        expected == KeyAuthorization(chv.Token, jwk)
        keyAuth == TrimSpace(get.Body)
    IN  IF get.err
        THEN storeError(chv, azv, ops, FALSE,
                        WrapError(ErrorConnectionType, "error doing http GET for url"), st)
        ELSE IF get.StatusCode >= 400
        THEN storeError(chv, azv, ops, FALSE,
                        NewError(ErrorConnectionType, "error doing http GET for url with status code"), st)
        ELSE IF get.readErr
        THEN Result(chv, azv, WrapErrorISE("error reading response body for url"), ops)
        ELSE IF expected.err # NoError
        THEN Result(chv, azv, expected.err, ops)
        ELSE IF keyAuth # expected.val
        THEN storeError(chv, azv, ops, TRUE,
                        NewError(ErrorRejectedIdentifierType, "keyAuthorization does not match"), st)
        ELSE UpdateValid(chv, azv, ops, t, st, "error updating challenge")

----------------------------------------------------------------------------
(* dns-01 *)

\* strings.TrimPrefix(ch.Value, "*.")
TrimWildcard(value) == IF Len(value) > 0 /\ Head(value) = "*." THEN Tail(value) ELSE value

DnsExpected1 == B64(SHA256(KA1))
DnsExpected2 == B64(SHA256(KA2))

TxtAnswers == {<<>>, <<DnsExpected1>>, <<DnsExpected2>>, <<KA1>>,
               <<<<"deadbeef">>, DnsExpected1>>, <<<<"deadbeef">>>>}

\* vc.LookupTxt outcomes
TxtLookups ==
    {[err |-> TRUE, records |-> <<>>]} \cup [err : {FALSE}, records : TxtAnswers]

dns01Validate_MismatchTerminal(chv, azv, jwk, lookup, t, st) ==
    LET ops == <<Op("LookupTxt", <<"_acme-challenge.">> \o TrimWildcard(chv.Value), ~lookup.err)>>
        expectedKeyAuth == KeyAuthorization(chv.Token, jwk)
        expected == B64(SHA256(expectedKeyAuth.val))
        found == \E i \in 1..Len(lookup.records) : lookup.records[i] = expected
    IN  IF lookup.err
        THEN storeError(chv, azv, ops, FALSE,
                        WrapError(ErrorDNSType, "error looking up TXT records for domain"), st)
        ELSE IF expectedKeyAuth.err # NoError
        THEN Result(chv, azv, expectedKeyAuth.err, ops)
        ELSE IF ~found
        THEN storeError(chv, azv, ops, TRUE,
                        NewError(ErrorRejectedIdentifierType, "keyAuthorization does not match"), st)
        ELSE UpdateValid(chv, azv, ops, t, st, "error updating challenge")

dns01Validate(chv, azv, jwk, lookup, t, st) ==
    LET ops == <<Op("LookupTxt", <<"_acme-challenge.">> \o TrimWildcard(chv.Value), ~lookup.err)>>
        expectedKeyAuth == KeyAuthorization(chv.Token, jwk)
        expected == B64(SHA256(expectedKeyAuth.val))
        found == \E i \in 1..Len(lookup.records) : lookup.records[i] = expected
    IN  IF lookup.err
        THEN storeError(chv, azv, ops, FALSE,
                        WrapError(ErrorDNSType, "error looking up TXT records for domain"), st)
        ELSE IF expectedKeyAuth.err # NoError
        THEN Result(chv, azv, expectedKeyAuth.err, ops)
        ELSE IF ~found
        THEN storeError(chv, azv, ops, FALSE,
                        NewError(ErrorRejectedIdentifierType, "keyAuthorization does not match"), st)
        ELSE UpdateValid(chv, azv, ops, t, st, "error updating challenge")

----------------------------------------------------------------------------
(* tls-alpn-01 *)

idPeAcmeIdentifier == <<1, 3, 6, 1, 5, 5, 7, 1, 31>>
idPeAcmeIdentifierV1Obsolete == <<1, 3, 6, 1, 5, 5, 7, 1, 30, 1>>
oidOther == <<2, 5, 29, 15>>

\* a DER value: its tag, its contents and the bytes that follow it
Der(tag, bytes, rest) == [tag |-> tag, bytes |-> bytes, rest |-> rest]

UnmarshalOctets_AnyTag(der) == [err |-> FALSE, rest |-> der.rest, val |-> der.bytes]

\* asn1.Unmarshal(ext.Value, &extValue) into a []byte
UnmarshalOctets(der) ==
    [err |-> der.tag # "OCTET STRING", rest |-> der.rest, val |-> der.bytes]

\* len() of a byte string: a SHA-256 digest has 32 bytes
ByteLen(bytes) == IF Len(bytes) > 0 /\ Head(bytes) = "sha256(" THEN 32 ELSE Len(bytes)

\* strings.EqualFold on the names in use
Fold(name) == IF name = "EXAMPLE.COM" THEN "example.com" ELSE name

EqualFold_Any(a, b) == TRUE

EqualFold(a, b) == Len(a) = Len(b) /\ \A i \in 1..Len(a) : Fold(a[i]) = Fold(b[i])

\* the result of scanning leafCert.Extensions in order
RECURSIVE ScanExtensions(_, _, _, _)
ScanExtensions(exts, i, hashedKeyAuth, foundObsolete) ==
    IF i > Len(exts)
    THEN IF foundObsolete THEN "obsolete" ELSE "missing"
    ELSE IF exts[i].Id = idPeAcmeIdentifier
    THEN LET u == UnmarshalOctets(exts[i].Value)
         IN  IF ~exts[i].Critical THEN "not critical"
             ELSE IF u.err \/ Len(u.rest) > 0 \/ ByteLen(hashedKeyAuth) # ByteLen(u.val)
             THEN "malformed"
             ELSE IF hashedKeyAuth # u.val THEN "mismatch"
             ELSE "match"
    ELSE ScanExtensions(exts, i + 1, hashedKeyAuth,
                        foundObsolete \/ exts[i].Id = idPeAcmeIdentifierV1Obsolete)

Ext(id, critical, value) == [Id |-> id, Critical |-> critical, Value |-> value]

GoodExt == Ext(idPeAcmeIdentifier, TRUE, Der("OCTET STRING", SHA256(KA1), <<>>))
ObsoleteExt == Ext(idPeAcmeIdentifierV1Obsolete, TRUE, Der("OCTET STRING", SHA256(KA1), <<>>))

ExtensionLists ==
    {<<GoodExt>>,
     <<Ext(oidOther, FALSE, Der("BIT STRING", <<"x">>, <<>>)), GoodExt>>,
     <<ObsoleteExt, GoodExt>>,
     <<Ext(idPeAcmeIdentifier, FALSE, Der("OCTET STRING", SHA256(KA1), <<>>))>>,
     <<Ext(idPeAcmeIdentifier, TRUE, Der("INTEGER", SHA256(KA1), <<>>))>>,
     <<Ext(idPeAcmeIdentifier, TRUE, Der("OCTET STRING", SHA256(KA1), <<"x">>))>>,
     <<Ext(idPeAcmeIdentifier, TRUE, Der("OCTET STRING", <<"de", "ad">>, <<>>))>>,
     <<Ext(idPeAcmeIdentifier, TRUE, Der("OCTET STRING", SHA256(KA2), <<>>))>>,
     <<ObsoleteExt>>,
     <<>>}

IP4Bytes == ParseIP(ValueIP4)
IP6Bytes == ParseIP(ValueIP6)

Leaf(dns, ips, exts) == [DNSNames |-> dns, IPAddresses |-> ips, Extensions |-> exts]

\* leaf certificates a peer may present
Leaves ==
    {Leaf(<<ValueDNS>>, <<>>, e) : e \in ExtensionLists}
    \cup {Leaf(d, i, <<GoodExt>>) :
            d \in {<<>>, <<<<"EXAMPLE.COM">>>>, <<<<"other.com">>>>, <<ValueDNS, <<"other.com">>>>},
            i \in {<<>>, <<IP4Bytes>>}}
    \cup {Leaf(<<>>, i, <<GoodExt>>) : i \in {<<IP6Bytes>>, <<IP4Bytes, IP6Bytes>>}}

\* errors of vc.TLSDial: a *net.OpError or not, the kind of its Err, the alert
DialErrors ==
    {[isOpError |-> TRUE, kind |-> "uint8", alert |-> 120],
     [isOpError |-> TRUE, kind |-> "uint8", alert |-> 40],
     [isOpError |-> TRUE, kind |-> "syscall", alert |-> 0],
     [isOpError |-> FALSE, kind |-> "uint8", alert |-> 120]}

NoDialError == [isOpError |-> FALSE, kind |-> "", alert |-> 0]

\* vc.TLSDial outcomes: an error, or a connection state
TLSDials ==
    [err : {TRUE}, dialErr : DialErrors, NegotiatedProtocol : {""}, PeerCertificates : {<<>>}]
    \cup [err : {FALSE}, dialErr : {NoDialError}, NegotiatedProtocol : {"acme-tls/1", "h2"},
          PeerCertificates : {<<>>, <<Leaf(<<ValueDNS>>, <<>>, <<GoodExt>>)>>}]
    \cup [err : {FALSE}, dialErr : {NoDialError}, NegotiatedProtocol : {"acme-tls/1"},
          PeerCertificates : {<<l>> : l \in Leaves}]

tlsAlert_Never(e) == 0

\* tlsAlert
tlsAlert(e) == IF e.isOpError /\ e.kind = "uint8" THEN e.alert ELSE 0

tlsHostPort(chv) ==
    JoinHostPort(chv.Value,
                 IF InsecurePortTLSALPN01 = 0 THEN <<"443">> ELSE uitoa(InsecurePortTLSALPN01))

tlsalpn01Validate_ALPNFirst(chv, azv, jwk, dial, t, st) ==
    LET ops == <<Op("TLSDial", <<tlsHostPort(chv), serverName(chv)>>, ~dial.err)>>
        certs == dial.PeerCertificates
        leafCert == certs[1]
        keyAuth == KeyAuthorization(chv.Token, jwk)
        hashedKeyAuth == SHA256(keyAuth.val)
        scan == ScanExtensions(leafCert.Extensions, 1, hashedKeyAuth, FALSE)
        reject(detail) ==
            storeError(chv, azv, ops, TRUE, NewError(ErrorRejectedIdentifierType, detail), st)
    IN  IF dial.err
        THEN IF tlsAlert(dial.dialErr) = 120
             THEN reject("cannot negotiate ALPN acme-tls/1 protocol for tls-alpn-01 challenge")
             ELSE storeError(chv, azv, ops, FALSE,
                             WrapError(ErrorConnectionType, "error doing TLS dial"), st)
        ELSE IF dial.NegotiatedProtocol # "acme-tls/1"
        THEN reject("cannot negotiate ALPN acme-tls/1 protocol for tls-alpn-01 challenge")
        ELSE IF Len(certs) = 0
        THEN reject("challenge resulted in no certificates")
        ELSE IF Len(leafCert.DNSNames) = 0
                /\ (Len(leafCert.IPAddresses) # 1
                    \/ leafCert.IPAddresses[1] # ParseIP(chv.Value))
        THEN reject("incorrect certificate for tls-alpn-01 challenge: leaf certificate must contain a single IP address or DNS name")
        ELSE IF Len(leafCert.DNSNames) # 0
                /\ (Len(leafCert.DNSNames) # 1
                    \/ ~EqualFold(leafCert.DNSNames[1], chv.Value))
        THEN reject("incorrect certificate for tls-alpn-01 challenge: leaf certificate must contain a single IP address or DNS name")
        ELSE IF keyAuth.err # NoError
        THEN Result(chv, azv, keyAuth.err, ops)
        ELSE IF scan = "not critical"
        THEN reject("incorrect certificate for tls-alpn-01 challenge: acmeValidationV1 extension not critical")
        ELSE IF scan = "malformed"
        THEN reject("incorrect certificate for tls-alpn-01 challenge: malformed acmeValidationV1 extension value")
        ELSE IF scan = "mismatch"
        THEN reject("incorrect certificate for tls-alpn-01 challenge: expected acmeValidationV1 extension value")
        ELSE IF scan = "match"
        THEN UpdateValid(chv, azv, ops, t, st, "tlsalpn01ValidateChallenge - error updating challenge")
        ELSE IF scan = "obsolete"
        THEN reject("incorrect certificate for tls-alpn-01 challenge: obsolete id-pe-acmeIdentifier in acmeValidationV1 extension")
        ELSE reject("incorrect certificate for tls-alpn-01 challenge: missing acmeValidationV1 extension")

tlsalpn01Validate(chv, azv, jwk, dial, t, st) ==
    LET ops == <<Op("TLSDial", <<tlsHostPort(chv), serverName(chv)>>, ~dial.err)>>
        certs == dial.PeerCertificates
        leafCert == certs[1]
        keyAuth == KeyAuthorization(chv.Token, jwk)
        hashedKeyAuth == SHA256(keyAuth.val)
        scan == ScanExtensions(leafCert.Extensions, 1, hashedKeyAuth, FALSE)
        reject(detail) ==
            storeError(chv, azv, ops, TRUE, NewError(ErrorRejectedIdentifierType, detail), st)
    IN  IF dial.err
        THEN IF tlsAlert(dial.dialErr) = 120
             THEN reject("cannot negotiate ALPN acme-tls/1 protocol for tls-alpn-01 challenge")
             ELSE storeError(chv, azv, ops, FALSE,
                             WrapError(ErrorConnectionType, "error doing TLS dial"), st)
        ELSE IF Len(certs) = 0
        THEN reject("challenge resulted in no certificates")
        ELSE IF dial.NegotiatedProtocol # "acme-tls/1"
        THEN reject("cannot negotiate ALPN acme-tls/1 protocol for tls-alpn-01 challenge")
        ELSE IF Len(leafCert.DNSNames) = 0
                /\ (Len(leafCert.IPAddresses) # 1
                    \/ leafCert.IPAddresses[1] # ParseIP(chv.Value))
        THEN reject("incorrect certificate for tls-alpn-01 challenge: leaf certificate must contain a single IP address or DNS name")
        ELSE IF Len(leafCert.DNSNames) # 0
                /\ (Len(leafCert.DNSNames) # 1
                    \/ ~EqualFold(leafCert.DNSNames[1], chv.Value))
        THEN reject("incorrect certificate for tls-alpn-01 challenge: leaf certificate must contain a single IP address or DNS name")
        ELSE IF keyAuth.err # NoError
        THEN Result(chv, azv, keyAuth.err, ops)
        ELSE IF scan = "not critical"
        THEN reject("incorrect certificate for tls-alpn-01 challenge: acmeValidationV1 extension not critical")
        ELSE IF scan = "malformed"
        THEN reject("incorrect certificate for tls-alpn-01 challenge: malformed acmeValidationV1 extension value")
        ELSE IF scan = "mismatch"
        THEN reject("incorrect certificate for tls-alpn-01 challenge: expected acmeValidationV1 extension value")
        ELSE IF scan = "match"
        THEN UpdateValid(chv, azv, ops, t, st, "tlsalpn01ValidateChallenge - error updating challenge")
        ELSE IF scan = "obsolete"
        THEN reject("incorrect certificate for tls-alpn-01 challenge: obsolete id-pe-acmeIdentifier in acmeValidationV1 extension")
        ELSE reject("incorrect certificate for tls-alpn-01 challenge: missing acmeValidationV1 extension")

----------------------------------------------------------------------------
(* device-attest-01: certificates, keys and attestation statements *)

oidSubjectAlternativeName == <<2, 5, 29, 17>>
oidAppleSerialNumber == <<1, 2, 840, 113635, 100, 8, 9, 1>>
oidAppleUniqueDeviceIdentifier == <<1, 2, 840, 113635, 100, 8, 9, 2>>
oidAppleSecureEnclaveProcessorOSVersion == <<1, 2, 840, 113635, 100, 8, 10, 2>>
oidAppleNonce == <<1, 2, 840, 113635, 100, 8, 11, 1>>
oidYubicoSerialNumber == <<1, 3, 6, 1, 4, 1, 41482, 3, 7>>

ValueSerial == <<"4", "2">>

\* a public key: its type, which key it is, whether its fingerprint can be taken
Key(kind, id) == [kind |-> kind, id |-> id, fpErr |-> FALSE]

\* keyutil.Fingerprint: [err, val]
Fingerprint(key) == [err |-> key.fpErr, val |-> <<"fp(", key.id, ")">>]

\* an x5c entry: a byte string or not, parsable or not, and the certificate:
\* the trust anchor it chains to, its issuer, its key and its extensions
CertEntry(anchor, issuer, key, exts) ==
    [isBytes |-> TRUE, parses |-> TRUE, name |-> "leaf", anchor |-> anchor,
     issuer |-> issuer, UnhandledCriticalExtensions |-> <<>>, PublicKey |-> key,
     Extensions |-> exts]

Intermediate == [CertEntry("", "root", Key("ecdsa-p256", "ik"), <<>>) EXCEPT !.name = "int"]

\* leaf.Verify: a path to a root in the pool, through the given intermediates,
\* with no critical extension left unhandled
VerifyChain(leaf, rest, roots) ==
    /\ leaf.anchor \in roots
    /\ leaf.issuer = "root" \/ \E i \in 1..Len(rest) : rest[i].name = leaf.issuer
    /\ Len(leaf.UnhandledCriticalExtensions) = 0

\* the provisioner of the context: the formats enabled, the configured roots
\* ({} when none is configured), whether it is an ACME provisioner
ProvDefault == [enabled |-> {"apple", "step", "tpm", "packed"}, roots |-> {}, isACME |-> TRUE]
ProvRoots == [enabled |-> {"apple", "step", "tpm", "packed"}, roots |-> {"custom"}, isACME |-> TRUE]

Provisioners ==
    {ProvDefault, ProvRoots,
     [enabled |-> {"apple", "step", "tpm"}, roots |-> {"custom"}, isACME |-> FALSE],
     [enabled |-> {"apple"}, roots |-> {}, isACME |-> TRUE]}

GetAttestationRoots_AlwaysOk(prov) == [ok |-> TRUE, roots |-> prov.roots]

\* prov.GetAttestationRoots
GetAttestationRoots(prov) == [ok |-> prov.roots # {}, roots |-> prov.roots]

\* prov.IsAttestationFormatEnabled
IsAttestationFormatEnabled(prov, format) == format \in prov.enabled

\* a signature: a byte string or not, CBOR-decodable or not, the key that made
\* it and the bytes it signs
Sig(by, over) == [isBytes |-> TRUE, cborOk |-> TRUE, by |-> by, over |-> over]

NoSig == [isBytes |-> FALSE, cborOk |-> FALSE, by |-> "", over |-> <<>>]

\* TPM2B_PUBLIC and TPM2B_ATTEST blobs
PubArea(id) == [isBytes |-> TRUE, decodes |-> TRUE, keyOk |-> TRUE, key |-> Key("rsa", id)]

NoPubArea == [isBytes |-> FALSE, decodes |-> FALSE, keyOk |-> FALSE, key |-> Key("", "")]

CertInfo(attests, extraData) ==
    [isBytes |-> TRUE, decodes |-> TRUE, attests |-> attests, ExtraData |-> extraData]

NoCertInfo == [isBytes |-> FALSE, decodes |-> FALSE, attests |-> "", ExtraData |-> <<>>]

\* the attStmt map: an absent or wrongly typed entry fails its type assertion
AttStmt(x5cOk, x5c, sig, ver, alg, pubArea, certInfo) ==
    [x5cOk |-> x5cOk, x5c |-> x5c, sig |-> sig, ver |-> ver, algOk |-> alg # 0,
     alg |-> alg, pubArea |-> pubArea, certInfo |-> certInfo]

AttObj(format, stmt) == [Format |-> format, AttStatement |-> stmt]

\* the result of a format verifier: [err, data]
AttErr(err) ==
    [err |-> err,
     data |-> [Nonce |-> <<>>, SerialNumber |-> <<>>, UDID |-> <<>>, SEPVersion |-> <<>>,
               Fingerprint |-> <<>>]]

AttOk(data) == [err |-> NoError, data |-> data]

BadX5c(x5c) ==
    \/ ~x5c[1].isBytes \/ ~x5c[1].parses
    \/ \E i \in 2..Len(x5c) : ~x5c[i].isBytes \/ ~x5c[i].parses

\* the value of the last extension with the given OID, <<>> when there is none
RECURSIVE ExtValue(_, _, _)
ExtValue(exts, oid, i) ==
    IF i = 0 THEN <<>>
    ELSE IF exts[i].Id = oid THEN exts[i].Value
    ELSE ExtValue(exts, oid, i - 1)

doAppleAttestationFormat(prov, chv, att) ==
    LET got == GetAttestationRoots(prov)
        roots == IF got.ok THEN got.roots ELSE {"apple"}
        stmt == att.AttStatement
        x5c == stmt.x5c
        leaf == x5c[1]
        fp == Fingerprint(leaf.PublicKey)
        exts == leaf.Extensions
    IN  IF ~stmt.x5cOk
        THEN AttErr(NewError(ErrorBadAttestationStatementType, "x5c not present"))
        ELSE IF Len(x5c) = 0
        THEN AttErr(NewError(ErrorRejectedIdentifierType, "x5c is empty"))
        ELSE IF BadX5c(x5c)
        THEN AttErr(NewError(ErrorBadAttestationStatementType, "x5c is malformed"))
        ELSE IF ~VerifyChain(leaf, Tail(x5c), roots)
        THEN AttErr(WrapError(ErrorBadAttestationStatementType, "x5c is not valid"))
        ELSE IF fp.err
        THEN AttErr(WrapErrorISE("error calculating key fingerprint"))
        ELSE AttOk([Nonce |-> ExtValue(exts, oidAppleNonce, Len(exts)),
                    SerialNumber |-> ExtValue(exts, oidAppleSerialNumber, Len(exts)),
                    UDID |-> ExtValue(exts, oidAppleUniqueDeviceIdentifier, Len(exts)),
                    SEPVersion |-> ExtValue(exts, oidAppleSecureEnclaveProcessorOSVersion, Len(exts)),
                    Fingerprint |-> fp.val])

\* the first extension with the given OID, 0 when there is none
RECURSIVE FirstExt(_, _, _)
FirstExt(exts, oid, i) ==
    IF i > Len(exts) THEN 0
    ELSE IF exts[i].Id = oid THEN i
    ELSE FirstExt(exts, oid, i + 1)

\* ecdsa.VerifyASN1, rsa.VerifyPKCS1v15, ed25519.Verify
SigVerifies(pub, msg, sig) == sig.by = pub.id /\ sig.over = msg

doStepAttestationFormat(prov, chv, jwk, att) ==
    LET got == GetAttestationRoots(prov)
        roots == IF got.ok THEN got.roots ELSE {"yubico"}
        stmt == att.AttStatement
        x5c == stmt.x5c
        leaf == x5c[1]
        pub == leaf.PublicKey
        keyAuth == KeyAuthorization(chv.Token, jwk)
        sum == SHA256(keyAuth.val)
        fp == Fingerprint(pub)
        exts == leaf.Extensions
        k == FirstExt(exts, oidYubicoSerialNumber, 1)
        bad(detail) == AttErr(NewError(ErrorBadAttestationStatementType, detail))
    IN  IF ~stmt.x5cOk THEN bad("x5c not present")
        ELSE IF Len(x5c) = 0
        THEN AttErr(NewError(ErrorRejectedIdentifierType, "x5c is empty"))
        ELSE IF BadX5c(x5c) THEN bad("x5c is malformed")
        ELSE IF ~VerifyChain(leaf, Tail(x5c), roots) THEN bad("x5c is not valid")
        ELSE IF ~stmt.sig.isBytes THEN bad("sig not present")
        ELSE IF ~stmt.sig.cborOk THEN bad("sig is malformed")
        ELSE IF keyAuth.err # NoError THEN AttErr(keyAuth.err)
        ELSE IF pub.kind = "ecdsa-p384" THEN bad("unsupported elliptic curve")
        ELSE IF pub.kind \in {"ecdsa-p256", "rsa"} /\ ~SigVerifies(pub, sum, stmt.sig)
        THEN bad("failed to validate signature")
        ELSE IF pub.kind = "ed25519" /\ ~SigVerifies(pub, keyAuth.val, stmt.sig)
        THEN bad("failed to validate signature")
        ELSE IF pub.kind \notin {"ecdsa-p256", "rsa", "ed25519"}
        THEN bad("unsupported public key type")
        ELSE IF fp.err THEN AttErr(WrapErrorISE("error calculating key fingerprint"))
        ELSE IF k # 0 /\ (exts[k].Value.tag # "INTEGER" \/ Len(exts[k].Value.rest) > 0)
        THEN bad("error parsing serial number")
        ELSE AttOk([Nonce |-> <<>>,
                    SerialNumber |-> IF k = 0 THEN <<>> ELSE uitoa(exts[k].Value.bytes),
                    UDID |-> <<>>, SEPVersion |-> <<>>, Fingerprint |-> fp.val])

\* leaf.UnhandledCriticalExtensions without the Subject Alternative Name OID
AllowSAN(oids) == SelectSeq(oids, LAMBDA o : o # oidSubjectAlternativeName)

\* certificationParameters.Verify: certInfo attests pubArea and sig is the
\* signature of the AK over certInfo
CertificationVerifies(pub, pubArea, certInfo, sig) ==
    /\ pubArea.decodes /\ certInfo.decodes
    /\ certInfo.attests = pubArea.key.id
    /\ sig.by = pub.id /\ sig.over = <<"certInfo", certInfo.attests>> \o certInfo.ExtraData

doTPMAttestationFormat(prov, chv, jwk, att) ==
    LET stmt == att.AttStatement
        x5c == stmt.x5c
        leaf == [x5c[1] EXCEPT !.UnhandledCriticalExtensions = AllowSAN(@)]
        got == GetAttestationRoots(prov)
        expectedDigest == keyAuthDigest(jwk, chv.Token)
        fp == Fingerprint(stmt.pubArea.key)
        bad(detail) == AttErr(NewError(ErrorBadAttestationStatementType, detail))
    IN  IF ~prov.isACME
        THEN AttErr(NewErrorISE("provisioner in context is not an ACME provisioner"))
        ELSE IF stmt.ver = "" THEN bad("ver not present")
        ELSE IF stmt.ver # "2.0" THEN bad("version is not supported")
        ELSE IF ~stmt.x5cOk THEN bad("x5c not present")
        ELSE IF Len(x5c) = 0 THEN bad("x5c is empty")
        ELSE IF BadX5c(x5c) THEN bad("x5c is malformed")
        ELSE IF ~got.ok THEN AttErr(NewErrorISE("failed getting tpm attestation root CAs"))
        ELSE IF ~VerifyChain(leaf, Tail(x5c), got.roots) THEN bad("x5c is not valid")
        ELSE IF ~stmt.pubArea.isBytes THEN bad("invalid pubArea in attestation statement")
        ELSE IF ~stmt.sig.isBytes THEN bad("invalid sig in attestation statement")
        ELSE IF ~stmt.algOk THEN bad("invalid alg in attestation statement")
        ELSE IF stmt.alg \notin {-257, -8, -7} THEN bad("invalid alg in attestation statement")
        ELSE IF ~stmt.certInfo.isBytes THEN bad("invalid certInfo in attestation statement")
        ELSE IF ~CertificationVerifies(leaf.PublicKey, stmt.pubArea, stmt.certInfo, stmt.sig)
        THEN bad("invalid certification parameters")
        ELSE IF ~stmt.certInfo.decodes THEN bad("failed decoding attestation data")
        ELSE IF expectedDigest.err # NoError THEN bad("failed creating key auth digest")
        ELSE IF expectedDigest.val # stmt.certInfo.ExtraData
        THEN bad("key authorization doesn not match")
        ELSE IF ~stmt.pubArea.decodes THEN bad("failed decoding pubArea")
        ELSE IF ~stmt.pubArea.keyOk THEN bad("failed getting public key")
        ELSE IF fp.err THEN AttErr(WrapErrorISE("error calculating key fingerprint"))
        ELSE AttOk([Nonce |-> <<>>, SerialNumber |-> <<>>, UDID |-> <<>>,
                    SEPVersion |-> <<>>, Fingerprint |-> fp.val])

----------------------------------------------------------------------------
(* device-attest-01: the dispatcher *)

ACMEErrorTypes ==
    {ErrorConnectionType, ErrorDNSType, ErrorRejectedIdentifierType,
     ErrorBadAttestationStatementType, ErrorMalformedType, ErrorServerInternalType}

IsACMEError_Never(err) == FALSE

\* errors.As(err, &acmeError)
IsACMEError(err) == err.Type \in ACMEErrorTypes

AttestationFormat_UnknownAsTPM(prov, chv, jwk, att) ==
    CASE att.Format = "apple" -> doAppleAttestationFormat(prov, chv, att)
      [] att.Format = "step" -> doStepAttestationFormat(prov, chv, jwk, att)
      [] OTHER -> doTPMAttestationFormat(prov, chv, jwk, att)

\* the switch on att.Format: [err, data], or the default case
AttestationFormat(prov, chv, jwk, att) ==
    CASE att.Format = "apple" -> doAppleAttestationFormat(prov, chv, att)
      [] att.Format = "step" -> doStepAttestationFormat(prov, chv, jwk, att)
      [] att.Format = "tpm" -> doTPMAttestationFormat(prov, chv, jwk, att)
      [] OTHER -> AttErr(NewError(ErrorBadAttestationStatementType,
                                  "unexpected attestation object format"))

\* the checks deviceAttest01Validate makes on the data a verifier returns:
\* the error to record, NoError when the data is accepted
BindingError_NoNonce(chv, format, data) ==
    IF format = "apple" /\ data.UDID # chv.Value /\ data.SerialNumber # chv.Value
    THEN NewError(ErrorBadAttestationStatementType, "permanent identifier does not match")
    ELSE IF format = "step" /\ data.SerialNumber # chv.Value
    THEN AddSubproblems(
             NewError(ErrorBadAttestationStatementType, "permanent identifier does not match"),
             NewSubproblemWithIdentifier(ErrorMalformedType, "permanent-identifier", chv.Value,
                 "challenge identifier doesn't match the attested hardware identifier"))
    ELSE NoError

BindingError_NoSubproblem(chv, format, data) ==
    IF format = "apple" /\ Len(data.Nonce) # 0 /\ data.Nonce # SHA256(chv.Token)
    THEN NewError(ErrorBadAttestationStatementType, "challenge token does not match")
    ELSE IF format \in {"apple", "step"} /\ data.UDID # chv.Value /\ data.SerialNumber # chv.Value
    THEN NewError(ErrorBadAttestationStatementType, "permanent identifier does not match")
    ELSE NoError

BindingError(chv, format, data) ==
    IF format = "apple" /\ Len(data.Nonce) # 0 /\ data.Nonce # SHA256(chv.Token)
    THEN NewError(ErrorBadAttestationStatementType, "challenge token does not match")
    ELSE IF format = "apple" /\ data.UDID # chv.Value /\ data.SerialNumber # chv.Value
    THEN NewError(ErrorBadAttestationStatementType, "permanent identifier does not match")
    ELSE IF format = "step" /\ data.SerialNumber # chv.Value
    THEN AddSubproblems(
             NewError(ErrorBadAttestationStatementType, "permanent identifier does not match"),
             NewSubproblemWithIdentifier(ErrorMalformedType, "permanent-identifier", chv.Value,
                 "challenge identifier doesn't match the attested hardware identifier"))
    ELSE NoError

\* lines 467-484: mark the challenge valid, store the fingerprint in the
\* authorization, then store the challenge
CommitAttestation_ChallengeFirst(chv, azv, ops, t, st) ==
    LET c2 == MarkValid(chv, t)
        opsC == ops \o <<Op("UpdateChallenge", <<>>, st.updChOk)>>
        opsA == opsC \o <<Op("UpdateAuthorization", <<>>, st.updAzOk)>>
    IN  IF ~st.updChOk
        THEN Result(c2, azv, WrapErrorISE("error updating challenge"), opsC)
        ELSE IF azv.Fingerprint # <<>> /\ ~st.updAzOk
        THEN Result(c2, azv, WrapErrorISE("error updating authorization"), opsA)
        ELSE Result(c2, azv, NoError, IF azv.Fingerprint # <<>> THEN opsA ELSE opsC)

CommitAttestation_IgnoreAzFailure(chv, azv, ops, t, st) ==
    LET c2 == MarkValid(chv, t)
        opsA == IF azv.Fingerprint # <<>>
                THEN ops \o <<Op("UpdateAuthorization", <<>>, st.updAzOk)>>
                ELSE ops
        opsC == opsA \o <<Op("UpdateChallenge", <<>>, st.updChOk)>>
    IN  IF ~st.updChOk
        THEN Result(c2, azv, WrapErrorISE("error updating challenge"), opsC)
        ELSE IF azv.Fingerprint # <<>> /\ ~st.updAzOk
        THEN Result(c2, azv, WrapErrorISE("error updating authorization"), opsC)
        ELSE Result(c2, azv, NoError, opsC)

CommitAttestation(chv, azv, ops, t, st) ==
    LET c2 == MarkValid(chv, t)
        opsA == IF azv.Fingerprint # <<>>
                THEN ops \o <<Op("UpdateAuthorization", <<>>, st.updAzOk)>>
                ELSE ops
        opsC == opsA \o <<Op("UpdateChallenge", <<>>, st.updChOk)>>
    IN  IF azv.Fingerprint # <<>> /\ ~st.updAzOk
        THEN Result(c2, azv, WrapErrorISE("error updating authorization"), opsA)
        ELSE IF ~st.updChOk
        THEN Result(c2, azv, WrapErrorISE("error updating challenge"), opsC)
        ELSE Result(c2, azv, NoError, opsC)

deviceAttest01Validate_PayloadFirst(chv, azv, jwk, in, t, st) ==
    LET ops == <<Op("GetAuthorization", chv.AuthorizationID, st.getAzOk)>>
        p == in.payload
        att == p.att
        prov == in.prov
        r == AttestationFormat(prov, chv, jwk, att)
        bind == BindingError(chv, att.Format, r.data)
        az2 == [azv EXCEPT !.Fingerprint = r.data.Fingerprint]
    IN  IF p.jsonErr
        THEN Result(chv, azv, WrapErrorISE("error unmarshalling JSON"), ops)
        ELSE IF p.Error # ""
        THEN storeError(chv, azv, ops, TRUE,
                        NewError(ErrorRejectedIdentifierType, "payload contained error"), st)
        ELSE IF ~st.getAzOk
        THEN Result(chv, azv, WrapErrorISE("error loading authorization"), ops)
        ELSE IF p.b64Err
        THEN Result(chv, azv, WrapErrorISE("error base64 decoding attObj"), ops)
        ELSE IF p.cborErr
        THEN Result(chv, azv, WrapErrorISE("error unmarshalling CBOR"), ops)
        ELSE IF ~IsAttestationFormatEnabled(prov, att.Format)
        THEN storeError(chv, azv, ops, TRUE,
                        NewError(ErrorBadAttestationStatementType,
                                 "attestation format is not enabled"), st)
        ELSE IF r.err # NoError /\ ~IsACMEError(r.err)
        THEN Result(chv, azv, WrapErrorISE("error validating attestation"), ops)
        ELSE IF r.err # NoError /\ r.err.Status = 500
        THEN Result(chv, azv, r.err, ops)
        ELSE IF r.err # NoError
        THEN storeError(chv, azv, ops, TRUE, r.err, st)
        ELSE IF bind # NoError
        THEN storeError(chv, azv, ops, TRUE, bind, st)
        ELSE CommitAttestation(chv, az2, ops, t, st)

\* in.az is the authorization db.GetAuthorization returns
deviceAttest01Validate(chv, azv, jwk, in, t, st) ==
    LET ops == <<Op("GetAuthorization", chv.AuthorizationID, st.getAzOk)>>
        p == in.payload
        att == p.att
        prov == in.prov
        r == AttestationFormat(prov, chv, jwk, att)
        bind == BindingError(chv, att.Format, r.data)
        az2 == [azv EXCEPT !.Fingerprint = r.data.Fingerprint]
    IN  IF ~st.getAzOk
        THEN Result(chv, azv, WrapErrorISE("error loading authorization"), ops)
        ELSE IF p.jsonErr
        THEN Result(chv, azv, WrapErrorISE("error unmarshalling JSON"), ops)
        ELSE IF p.Error # ""
        THEN storeError(chv, azv, ops, TRUE,
                        NewError(ErrorRejectedIdentifierType, "payload contained error"), st)
        ELSE IF p.b64Err
        THEN Result(chv, azv, WrapErrorISE("error base64 decoding attObj"), ops)
        ELSE IF p.cborErr
        THEN Result(chv, azv, WrapErrorISE("error unmarshalling CBOR"), ops)
        ELSE IF ~IsAttestationFormatEnabled(prov, att.Format)
        THEN storeError(chv, azv, ops, TRUE,
                        NewError(ErrorBadAttestationStatementType,
                                 "attestation format is not enabled"), st)
        ELSE IF r.err # NoError /\ ~IsACMEError(r.err)
        THEN Result(chv, azv, WrapErrorISE("error validating attestation"), ops)
        ELSE IF r.err # NoError /\ r.err.Status = 500
        THEN Result(chv, azv, r.err, ops)
        ELSE IF r.err # NoError
        THEN storeError(chv, azv, ops, TRUE, r.err, st)
        ELSE IF bind # NoError
        THEN storeError(chv, azv, ops, TRUE, bind, st)
        ELSE CommitAttestation(chv, az2, ops, t, st)

----------------------------------------------------------------------------
(* device-attest-01: the payloads and attestation objects a client may send *)

AppleExt(oid, value) == [Id |-> oid, Value |-> value]

AppleKey == Key("ecdsa-p256", "dk")

AppleLeaf(anchor, exts) == CertEntry(anchor, "root", AppleKey, exts)

AppleStmt(x5c) == AttStmt(TRUE, x5c, NoSig, "", 0, NoPubArea, NoCertInfo)

SerialExt == AppleExt(oidAppleSerialNumber, ValueDevice)
NonceExt == AppleExt(oidAppleNonce, SHA256(Token1))

GoodApple == AppleStmt(<<AppleLeaf("apple", <<SerialExt, NonceExt>>)>>)

AppleStatements ==
    {AppleStmt(<<AppleLeaf("apple", e)>>) :
        e \in {<<SerialExt, NonceExt>>,
               <<SerialExt>>,
               <<AppleExt(oidAppleUniqueDeviceIdentifier, ValueDevice), NonceExt>>,
               <<AppleExt(oidAppleSerialNumber, <<"SN999">>),
                 AppleExt(oidAppleUniqueDeviceIdentifier, <<"U999">>), NonceExt>>,
               <<SerialExt, AppleExt(oidAppleNonce, SHA256(<<"T2">>))>>,
               <<NonceExt>>}}
    \cup {AppleStmt(<<AppleLeaf(a, <<SerialExt, NonceExt>>)>>) : a \in {"custom", "none"}}
    \cup {AppleStmt(<<[AppleLeaf("apple", <<SerialExt, NonceExt>>) EXCEPT !.issuer = "int"]>> \o i) :
            i \in {<<>>, <<Intermediate>>, <<[Intermediate EXCEPT !.parses = FALSE]>>}}
    \cup {AppleStmt(<<[AppleLeaf("apple", <<SerialExt, NonceExt>>) EXCEPT !.PublicKey.fpErr = TRUE]>>),
          AppleStmt(<<[AppleLeaf("apple", <<SerialExt, NonceExt>>) EXCEPT !.isBytes = FALSE]>>),
          AppleStmt(<<>>),
          [AppleStmt(<<>>) EXCEPT !.x5cOk = FALSE]}

YubiExt(n) == [Id |-> oidYubicoSerialNumber, Value |-> Der("INTEGER", n, <<>>)]

StepLeaf(kind, exts) == CertEntry("yubico", "root", Key(kind, "yk"), exts)

StepStmt(x5c, sig) == AttStmt(TRUE, x5c, sig, "", 0, NoPubArea, NoCertInfo)

GoodStep == StepStmt(<<StepLeaf("ecdsa-p256", <<YubiExt(42)>>)>>, Sig("yk", SHA256(KA1)))

StepStatements ==
    {StepStmt(<<StepLeaf("ecdsa-p256", e)>>, Sig("yk", SHA256(KA1))) :
        e \in {<<YubiExt(42)>>, <<YubiExt(43)>>, <<>>, <<YubiExt(42), YubiExt(43)>>,
               <<[Id |-> oidYubicoSerialNumber, Value |-> Der("OCTET STRING", 42, <<>>)]>>,
               <<[Id |-> oidYubicoSerialNumber, Value |-> Der("INTEGER", 42, <<"x">>)]>>}}
    \cup {StepStmt(<<StepLeaf(k, <<YubiExt(42)>>)>>, s) :
            k \in {"ecdsa-p384", "rsa", "ed25519", "dsa"},
            s \in {Sig("yk", SHA256(KA1)), Sig("yk", KA1)}}
    \cup {StepStmt(<<StepLeaf("ecdsa-p256", <<YubiExt(42)>>)>>, s) :
            s \in {NoSig, [Sig("yk", SHA256(KA1)) EXCEPT !.cborOk = FALSE],
                   Sig("yk", KA1), Sig("other", SHA256(KA1)), Sig("yk", SHA256(KA2))}}
    \cup {StepStmt(<<[StepLeaf("ecdsa-p256", <<YubiExt(42)>>) EXCEPT !.anchor = "none"]>>,
                   Sig("yk", SHA256(KA1)))}

AKKey == Key("rsa", "ak")

TPMLeaf(crit) ==
    [CertEntry("custom", "root", AKKey, <<>>) EXCEPT !.UnhandledCriticalExtensions = crit]

\* the digest the code expects in extraData, and the digest of the key authorization
TPMDigest1 == SHA256(Token1 \o <<".">> \o <<"h1">>)

TPMSig(extraData) == Sig("ak", <<"certInfo", "tk">> \o extraData)

TPMStmt(x5c, ver, alg, pubArea, extraData) ==
    AttStmt(TRUE, x5c, TPMSig(extraData), ver, alg, pubArea, CertInfo("tk", extraData))

GoodTPM == TPMStmt(<<TPMLeaf(<<oidSubjectAlternativeName>>)>>, "2.0", -257, PubArea("tk"), TPMDigest1)

TPMStatements ==
    {GoodTPM,
     TPMStmt(<<TPMLeaf(<<>>)>>, "2.0", -7, PubArea("tk"), TPMDigest1),
     TPMStmt(<<TPMLeaf(<<>>)>>, "2.0", -8, PubArea("tk"), SHA256(KA1)),
     TPMStmt(<<TPMLeaf(<<oidSubjectAlternativeName, oidOther>>)>>, "2.0", -257, PubArea("tk"), TPMDigest1),
     TPMStmt(<<TPMLeaf(<<>>)>>, "1.2", -257, PubArea("tk"), TPMDigest1),
     TPMStmt(<<TPMLeaf(<<>>)>>, "", -257, PubArea("tk"), TPMDigest1),
     TPMStmt(<<TPMLeaf(<<>>)>>, "2.0", 0, PubArea("tk"), TPMDigest1),
     TPMStmt(<<TPMLeaf(<<>>)>>, "2.0", -999, PubArea("tk"), TPMDigest1),
     TPMStmt(<<TPMLeaf(<<>>)>>, "2.0", -257, NoPubArea, TPMDigest1),
     TPMStmt(<<TPMLeaf(<<>>)>>, "2.0", -257, PubArea("other"), TPMDigest1),
     TPMStmt(<<TPMLeaf(<<>>)>>, "2.0", -257, [PubArea("tk") EXCEPT !.keyOk = FALSE], TPMDigest1),
     TPMStmt(<<TPMLeaf(<<>>)>>, "2.0", -257, [PubArea("tk") EXCEPT !.key.fpErr = TRUE], TPMDigest1),
     TPMStmt(<<>>, "2.0", -257, PubArea("tk"), TPMDigest1),
     [GoodTPM EXCEPT !.x5cOk = FALSE],
     [GoodTPM EXCEPT !.sig = NoSig],
     [GoodTPM EXCEPT !.sig.by = "other"],
     [GoodTPM EXCEPT !.certInfo = NoCertInfo]}

AttestationObjects ==
    {AttObj("apple", s) : s \in AppleStatements}
    \cup {AttObj("step", s) : s \in StepStatements}
    \cup {AttObj("tpm", s) : s \in TPMStatements}
    \cup {AttObj("packed", GoodTPM), AttObj("none", GoodTPM)}

\* the request payload: JSON that parses or not, its error field, attObj that
\* base64-decodes and CBOR-decodes or not, and the decoded attestation object
Payload(att) == [jsonErr |-> FALSE, Error |-> "", b64Err |-> FALSE, cborErr |-> FALSE, att |-> att]

Payloads ==
    {Payload(a) : a \in AttestationObjects}
    \cup {[Payload(AttObj("tpm", GoodTPM)) EXCEPT !.jsonErr = TRUE],
          [Payload(AttObj("tpm", GoodTPM)) EXCEPT !.Error = "attestation failed"],
          [Payload(AttObj("tpm", GoodTPM)) EXCEPT !.Error = "attestation failed", !.b64Err = TRUE],
          [Payload(AttObj("tpm", GoodTPM)) EXCEPT !.b64Err = TRUE],
          [Payload(AttObj("tpm", GoodTPM)) EXCEPT !.cborErr = TRUE]}

----------------------------------------------------------------------------
(* Challenge.Validate *)

\* answers of a prover that holds key k1
GoodGet == [err |-> FALSE, StatusCode |-> 200, readErr |-> FALSE, Body |-> KA1 \o <<"\n">>]
GoodLookup == [err |-> FALSE, records |-> <<<<"deadbeef">>, DnsExpected1>>]
GoodDial ==
    [err |-> FALSE, dialErr |-> NoDialError, NegotiatedProtocol |-> "acme-tls/1",
     PeerCertificates |-> <<Leaf(<<ValueDNS>>, <<>>, <<GoodExt>>)>>]

\* the inputs of one call: the account key, the payload and the provisioner
\* of the context, and what the network answers. Every answer is tried with
\* key k1, the answers of a k1 prover with every key
Inputs(type) ==
    CASE type = HTTP01 -> [jwk : {"k1"}, net : HttpGets] \cup [jwk : JWKs, net : {GoodGet}]
      [] type = DNS01 -> [jwk : {"k1"}, net : TxtLookups] \cup [jwk : JWKs, net : {GoodLookup}]
      [] type = TLSALPN01 -> [jwk : {"k1"}, net : TLSDials] \cup [jwk : JWKs, net : {GoodDial}]
      [] type = DEVICEATTEST01 ->
            [jwk : {"k1"}, payload : {x \in Payloads : x.att.Format # "tpm"}, prov : {ProvDefault}]
            \cup [jwk : {"k1"}, payload : {x \in Payloads : x.att.Format = "tpm"},
                  prov : {ProvRoots, ProvDefault}]
            \cup [jwk : JWKs,
                  payload : {Payload(AttObj("apple", GoodApple)), Payload(AttObj("step", GoodStep)),
                             Payload(AttObj("tpm", GoodTPM))},
                  prov : Provisioners]
      [] OTHER -> [jwk : JWKs]

Dispatch_UnknownIsNoOp(chv, azv, in, t, st) ==
    CASE chv.Type = HTTP01 -> http01Validate(chv, azv, in.jwk, in.net, t, st)
      [] chv.Type = DNS01 -> dns01Validate(chv, azv, in.jwk, in.net, t, st)
      [] chv.Type = TLSALPN01 -> tlsalpn01Validate(chv, azv, in.jwk, in.net, t, st)
      [] chv.Type = DEVICEATTEST01 -> deviceAttest01Validate(chv, azv, in.jwk, in, t, st)
      [] OTHER -> Result(chv, azv, NoError, <<>>)

\* the switch on ch.Type
Dispatch(chv, azv, in, t, st) ==
    CASE chv.Type = HTTP01 -> http01Validate(chv, azv, in.jwk, in.net, t, st)
      [] chv.Type = DNS01 -> dns01Validate(chv, azv, in.jwk, in.net, t, st)
      [] chv.Type = TLSALPN01 -> tlsalpn01Validate(chv, azv, in.jwk, in.net, t, st)
      [] chv.Type = DEVICEATTEST01 -> deviceAttest01Validate(chv, azv, in.jwk, in, t, st)
      [] OTHER -> Result(chv, azv, NewErrorISE("unexpected challenge type"), <<>>)

ValidateOp_NoStatusCheck(chv, azv, in, t, st) == Dispatch(chv, azv, in, t, st)

ValidateOp_OnlyValidReturns(chv, azv, in, t, st) ==
    IF chv.Status = StatusValid
    THEN Result(chv, azv, NoError, <<>>)
    ELSE Dispatch(chv, azv, in, t, st)

ValidateOp(chv, azv, in, t, st) ==
    IF chv.Status # StatusPending
    THEN Result(chv, azv, NoError, <<>>)
    ELSE Dispatch(chv, azv, in, t, st)

----------------------------------------------------------------------------
(* The store, the callers and the calls *)

Challenge(type, value, status, validatedAt) ==
    [ID |-> "chID", AccountID |-> "accID", AuthorizationID |-> "azID",
     Value |-> value, Type |-> type, Status |-> status, Token |-> Token1,
     ValidatedAt |-> validatedAt, URL |-> "https://ca/acme/challenge/chID",
     Error |-> NoError]

\* the identifiers a challenge of each type is created for
ValuesOf(type) ==
    CASE type = HTTP01 -> {ValueDNS, ValueIP4, ValueIP6, ValueIP4in6}
      [] type = DNS01 -> {ValueWildcard}
      [] type = TLSALPN01 -> {ValueDNS, ValueIP4, ValueIP6, ValueIP4in6}
      [] type = DEVICEATTEST01 -> {ValueDevice, ValueSerial}
      [] OTHER -> {ValueDNS}

\* the inputs of a call that returns before it reads any
NoInput == [jwk |-> ""]

\* last: the latest step. A Validate call records the inputs it read, what it
\* returned and the network and store calls it made, and flips seq
\* no call yet, or the caller has just read the challenge
NoCall(c) == [op |-> "Load", caller |-> c, seq |-> 0, in |-> NoInput, ret |-> NoError, ops |-> <<>>]

\* Challenges are created pending by the order subsystem; the store may also
\* hold one that an earlier run validated, invalidated or otherwise moved on
Init ==
    /\ \E type \in ChallengeTypes \cup {UnknownType} :
       \E value \in ValuesOf(type) :
       \E status \in Statuses :
           db = Challenge(type, value, status,
                          IF status = StatusValid THEN FormatRFC3339("t0") ELSE "")
    /\ azdb = [ID |-> "azID", Fingerprint |-> <<>>]
    /\ ch = [c \in Callers |-> db]
    /\ last = NoCall("A")
    /\ created = db
    /\ base = [TLSConfig |-> "nil"]
    /\ boot = [seq |-> 0, token |-> "", env |-> "", before |-> "nil", ret |-> "",
               srv |-> "nil", calls |-> <<>>]
    /\ scep = [seq |-> 0, Operation |-> "", certs |-> <<>>, authErr |-> FALSE,
               degErr |-> FALSE, ret |-> "", status |-> 0, ContentType |-> "", body |-> <<>>]

\* the caller reads the challenge from the store (db.GetChallenge)
Load(c) ==
    /\ ch' = [ch EXCEPT ![c] = db]
    /\ last' = NoCall(c)
    /\ UNCHANGED <<db, azdb, created, base, boot, scep>>

\* ch.Validate(ctx, db, jwk, payload) on the caller's challenge object, with
\* inputs drawn from the given set; the authorization db.GetAuthorization
\* returns is the stored one
Call(c, inputs) ==
    \E in \in inputs, t \in Instants, st \in StoreOutcomes(ch[c].Type) :
        LET r == ValidateOp(ch[c], azdb, in, t, st)
        IN  /\ ch' = [ch EXCEPT ![c] = r.ch]
            /\ db' = IF Wrote(r.ops, "UpdateChallenge") THEN r.ch ELSE db
            /\ azdb' = IF Wrote(r.ops, "UpdateAuthorization") THEN r.az ELSE azdb
            /\ last' = [op |-> "Validate", caller |-> c, seq |-> 1 - last.seq,
                        in |-> IF ch[c].Status = StatusPending THEN in ELSE NoInput,
                        ret |-> r.ret, ops |-> r.ops]
            /\ UNCHANGED <<created, base, boot, scep>>

\* the calls whose context is cancelled while the network call is in flight:
\* the client's call returns an error (for tls-alpn-01 one that carries no TLS
\* alert). No verifier reads the context itself; the store calls that follow
\* receive the cancelled context and may fail or not
CancelledInputs(type) ==
    CASE type = HTTP01 ->
            [jwk : {"k1"}, net : {[GoodGet EXCEPT !.err = TRUE]}, ctx : {"canceled"}]
      [] type = DNS01 ->
            [jwk : {"k1"}, net : {[GoodLookup EXCEPT !.err = TRUE]}, ctx : {"canceled"}]
      [] type = TLSALPN01 ->
            [jwk : {"k1"},
             net : {[err |-> TRUE, dialErr |-> [isOpError |-> FALSE, kind |-> "canceled", alert |-> 0],
                     NegotiatedProtocol |-> "", PeerCertificates |-> <<>>]},
             ctx : {"canceled"}]
      [] OTHER -> {}

Validate(c) == Call(c, Inputs(ch[c].Type) \cup CancelledInputs(ch[c].Type))

\* in a race: a proof that verifies, a transient failure and a terminal one
RaceInputs(type) ==
    CASE type = HTTP01 ->
            [jwk : {"k1"}, net : {GoodGet, [GoodGet EXCEPT !.err = TRUE], [GoodGet EXCEPT !.Body = KA2]}]
      [] type = DNS01 ->
            [jwk : {"k1"}, net : {GoodLookup, [GoodLookup EXCEPT !.err = TRUE],
                                  [GoodLookup EXCEPT !.records = <<>>]}]
      [] type = TLSALPN01 ->
            [jwk : {"k1"}, net : {GoodDial, [GoodDial EXCEPT !.NegotiatedProtocol = "h2"]}
                                 \cup [err : {TRUE}, dialErr : DialErrors,
                                       NegotiatedProtocol : {""}, PeerCertificates : {<<>>}]]
      [] type = DEVICEATTEST01 ->
            [jwk : {"k1"},
             payload : {Payload(AttObj("apple", GoodApple)), Payload(AttObj("step", GoodStep)),
                        Payload(AttObj("packed", GoodTPM))},
             prov : {ProvDefault}]
            \cup [jwk : {"k1"}, payload : {Payload(AttObj("tpm", GoodTPM))}, prov : {ProvRoots}]
      [] OTHER -> [jwk : {"k1"}]

ValidateRace(c) == Call(c, RaceInputs(ch[c].Type))

\* one caller at a time: every call reads the challenge, validates it and returns
Next == Load("A") \/ Validate("A")

Spec == Init /\ [][Next]_vars

\* two callers race on the same challenge
NextRace == \E c \in Callers : Load(c) \/ ValidateRace(c)

SpecRace == Init /\ [][NextRace]_vars

----------------------------------------------------------------------------
(* ca/bootstrap.go: BootstrapServer *)

\* the bootstrap helper and the SCEP handler run beside a store at rest
InitIdle == Init /\ db = Challenge(HTTP01, ValueDNS, StatusPending, "")

\* Bootstrap: the error it returns ("" for nil; "panic" when claims.Audience[0]
\* is read from an empty audience). A token is what jwt.ParseSigned and
\* UnsafeClaimsWithoutVerification make of it; NewClient may fail
Bootstrap(token, newClientOk) ==
    IF ~token.parses THEN "error parsing token"
    ELSE IF ~token.claimsOk THEN "error parsing token"
    ELSE IF token.sha = "" THEN "invalid bootstrap token: sha claim is not present"
    ELSE IF Len(token.aud) = 0 THEN "panic"
    ELSE IF token.aud[1] \notin {"https://ca", "HTTPS://CA", "http://ca"}
    THEN "invalid bootstrap token: aud claim is not a url"
    ELSE IF ~newClientOk THEN "error creating client"
    ELSE ""

BootstrapServerOp_NoTLSConfigCheck(b, token, env) ==
    LET client == Bootstrap(token, env.newClientOk)
        out(ret, cfg, calls) ==
            [ret |-> ret, TLSConfig |-> cfg, srv |-> IF ret = "" THEN "base" ELSE "nil",
             calls |-> calls]
    IN  IF client # ""
        THEN out(client, b.TLSConfig, <<"Bootstrap">>)
        ELSE IF ~env.signReqOk
        THEN out("error creating sign request", b.TLSConfig, <<"Bootstrap", "CreateSignRequest">>)
        ELSE IF ~env.signOk
        THEN out("error signing", b.TLSConfig, <<"Bootstrap", "CreateSignRequest", "Sign">>)
        ELSE IF ~env.tlsOk
        THEN out("error getting TLS config", b.TLSConfig,
                 <<"Bootstrap", "CreateSignRequest", "Sign", "GetServerTLSConfig">>)
        ELSE out("", "bootstrapped",
                 <<"Bootstrap", "CreateSignRequest", "Sign", "GetServerTLSConfig">>)

\* BootstrapServer on the server b: the error returned, the server returned,
\* b.TLSConfig afterwards and the calls made, in order
BootstrapServerOp(b, token, env) ==
    LET client == Bootstrap(token, env.newClientOk)
        out(ret, cfg, calls) ==
            [ret |-> ret, TLSConfig |-> cfg, srv |-> IF ret = "" THEN "base" ELSE "nil",
             calls |-> calls]
    IN  IF b.TLSConfig # "nil"
        THEN out("server TLSConfig is already set", b.TLSConfig, <<>>)
        ELSE IF client # ""
        THEN out(client, b.TLSConfig, <<"Bootstrap">>)
        ELSE IF ~env.signReqOk
        THEN out("error creating sign request", b.TLSConfig, <<"Bootstrap", "CreateSignRequest">>)
        ELSE IF ~env.signOk
        THEN out("error signing", b.TLSConfig, <<"Bootstrap", "CreateSignRequest", "Sign">>)
        ELSE IF ~env.tlsOk
        THEN out("error getting TLS config", b.TLSConfig,
                 <<"Bootstrap", "CreateSignRequest", "Sign", "GetServerTLSConfig">>)
        ELSE out("", "bootstrapped",
                 <<"Bootstrap", "CreateSignRequest", "Sign", "GetServerTLSConfig">>)

\* a call of BootstrapServer: the caller passes a new server, one it has
\* configured for TLS itself, or the server of the previous call
BootstrapServer ==
    \E b \in {[TLSConfig |-> "nil"], [TLSConfig |-> "own"], base},
       token \in [parses : {TRUE}, claimsOk : {TRUE}, sha : {"", "sha"},
                  aud : {<<>>, <<"https://ca">>, <<"HTTPS://CA">>, <<"ftp://ca">>}]
                 \cup [parses : BOOLEAN, claimsOk : BOOLEAN, sha : {"sha"}, aud : {<<"https://ca">>}],
       env \in {e \in [newClientOk : BOOLEAN, signReqOk : BOOLEAN, signOk : BOOLEAN, tlsOk : BOOLEAN] :
                   Cardinality({f \in DOMAIN e : ~e[f]}) <= 1} :
        LET r == BootstrapServerOp(b, token, env)
        IN  /\ base' = [b EXCEPT !.TLSConfig = r.TLSConfig]
            /\ boot' = [seq |-> 1 - boot.seq, token |-> token, env |-> env,
                        before |-> b.TLSConfig, ret |-> r.ret, srv |-> r.srv, calls |-> r.calls]
            /\ UNCHANGED <<db, azdb, ch, last, created, scep>>

SpecBootstrap == InitIdle /\ [][BootstrapServer]_vars

----------------------------------------------------------------------------
(* SCEP: Handler.GetCACert *)

\* contentHeader
contentHeader(operation, certNum) ==
    CASE operation = "GetCACert" ->
            IF certNum > 1 THEN "application/x-x509-ca-ra-cert" ELSE "application/x-x509-ca-cert"
      [] operation = "PKIOperation" -> "application/x-pki-message"
      [] OTHER -> "text/plain"

\* writeSCEPResponse: what the ResponseWriter holds afterwards
writeSCEPResponse(response) ==
    IF response.Err # ""
    THEN [status |-> 500, ContentType |-> "text/plain; charset=utf-8", body |-> <<response.Err>>]
    ELSE [status |-> 200,
          ContentType |-> contentHeader(response.Operation, response.CACertNum),
          body |-> response.Data]

\* Handler.GetCACert for the certificates the authority returns: the error
\* returned to Handler.Get and the response written (status 0: none written)
GetCACertOp(scepResponse, certs, authErr, degErr) ==
    IF authErr
    THEN [ret |-> "error getting CA certificates",
          resp |-> [status |-> 0, ContentType |-> "", body |-> <<>>]]
    ELSE [ret |-> "",
          resp |-> writeSCEPResponse(
              IF Len(certs) = 0
              THEN [scepResponse EXCEPT !.CACertNum = 0, !.Err = "missing CA Cert"]
              ELSE IF Len(certs) = 1
              THEN [scepResponse EXCEPT !.Data = <<certs[1]>>, !.CACertNum = 1]
              ELSE [scepResponse EXCEPT !.Data = IF degErr THEN <<>> ELSE <<"degenerate">> \o certs,
                                        !.Err = IF degErr THEN "degenerate certificates failed" ELSE ""])]

\* Handler.Get with operation=GetCACert, for an authority that holds up to
\* three CA certificates
GetCACert ==
    \E n \in 0..3, authErr \in BOOLEAN, degErr \in BOOLEAN :
    \E certs \in [1..n -> {"ca", "ra", "int"}] :
        LET r == GetCACertOp([Operation |-> "GetCACert", CACertNum |-> 0, Data |-> <<>>, Err |-> ""],
                             certs, authErr, degErr)
        IN  /\ scep' = [seq |-> 1 - scep.seq, Operation |-> "GetCACert", certs |-> certs,
                        authErr |-> authErr, degErr |-> degErr, ret |-> r.ret,
                        status |-> r.resp.status, ContentType |-> r.resp.ContentType,
                        body |-> r.resp.body]
            /\ UNCHANGED <<db, azdb, ch, last, created, base, boot>>

SpecSCEP == InitIdle /\ [][GetCACert]_vars

----------------------------------------------------------------------------
(* Properties *)

\* the step is a Validate call of caller c
ValidateStep(c) == last'.op = "Validate" /\ last'.caller = c /\ last'.seq # last.seq

Terminal == {StatusValid, StatusInvalid}

\* the latest step is a Validate call that found its challenge pending
CalledPending(type) ==
    last.op = "Validate" /\ last.in # NoInput /\ ch[last.caller].Type = type

FailedWrite(ops) == \E i \in 1..Len(ops) : ops[i].op \in {"UpdateChallenge", "UpdateAuthorization"} /\ ~ops[i].ok

\* C1: a Validate call on a challenge whose status is not pending returns
\* success, makes no network or store call and leaves the challenge object, the
\* stored challenge and the stored authorization as they were, whatever the
\* challenge type and the inputs.
C1_NonPendingIsNoOp ==
    [][\A c \in Callers :
        (ValidateStep(c) /\ ch[c].Status # StatusPending)
        => /\ last'.ret = NoError
           /\ last'.ops = <<>>
           /\ ch' = ch /\ db' = db /\ azdb' = azdb]_vars

C1_Witness ==
    /\ last.op = "Validate" /\ last.in = NoInput
    /\ ch["A"].Status = StatusInvalid /\ ch["A"].Error # NoError
    /\ ch["A"].Type = DEVICEATTEST01

\* C2: over any sequence of Validate calls on one challenge, the status of the
\* stored challenge and of the challenge object a call works on changes only
\* from pending to valid or from pending to invalid.
C2_StatusMonotone ==
    [][/\ db'.Status # db.Status => (db.Status = StatusPending /\ db'.Status \in Terminal)
       /\ \A c \in Callers :
            (ValidateStep(c) /\ ch'[c].Status # ch[c].Status)
            => (ch[c].Status = StatusPending /\ ch'[c].Status \in Terminal)]_vars

C2_Witness ==
    /\ last.op = "Validate" /\ last.in = NoInput
    /\ created.Status = StatusPending
    /\ db.Status = StatusValid /\ ch["A"].Status = StatusValid

\* C3: for a challenge created pending with no validated_at, the status is
\* always one of pending, valid, invalid, and validated_at is non-empty exactly
\* when the status is valid, in the store and in the caller's object.
C3_ValidatedAtIffValid ==
    (created.Status = StatusPending /\ created.ValidatedAt = "")
    => /\ db.Status \in {StatusPending, StatusValid, StatusInvalid}
       /\ (db.ValidatedAt # "") <=> (db.Status = StatusValid)
       /\ ch["A"].Status \in {StatusPending, StatusValid, StatusInvalid}
       /\ (ch["A"].ValidatedAt # "") <=> (ch["A"].Status = StatusValid)

C3_Witness ==
    /\ created.Status = StatusPending /\ created.ValidatedAt = ""
    /\ last.op = "Validate" /\ last.in # NoInput
    /\ db.Status = StatusValid /\ db.ValidatedAt = FormatRFC3339("t1")

\* C4: a Validate call that sets the status to valid leaves the error empty,
\* and a call removes a recorded error only by setting the status to valid.
C4_ErrorClearedIffValid ==
    [][\A c \in Callers :
        ValidateStep(c)
        => /\ (ch[c].Status # StatusValid /\ ch'[c].Status = StatusValid)
              => ch'[c].Error = NoError
           /\ (ch[c].Error # NoError /\ ch'[c].Error = NoError)
              => (ch[c].Status = StatusPending /\ ch'[c].Status = StatusValid)
           /\ (db.Status # StatusValid /\ db'.Status = StatusValid) => db'.Error = NoError
           /\ (db.Error # NoError /\ db'.Error = NoError)
              => (db.Status = StatusPending /\ db'.Status = StatusValid)]_vars

\* a call set the challenge valid and cleared the error an earlier call recorded
C4_Witness ==
    /\ last.op = "Validate" /\ last.in # NoInput
    /\ ch["A"].Status = StatusValid /\ ch["A"].Error = NoError
    /\ db.Status = StatusPending /\ db.Error # NoError


\* the latest call was a dns-01 validation whose TXT lookup succeeded and
\* returned no value equal to base64url(SHA-256(key authorization))
DnsMismatch ==
    /\ CalledPending(DNS01)
    /\ ~last.in.net.err
    /\ KeyAuthorization(ch[last.caller].Token, last.in.jwk).err = NoError
    /\ \A i \in 1..Len(last.in.net.records) :
          last.in.net.records[i]
            # B64(SHA256(KeyAuthorization(ch[last.caller].Token, last.in.jwk).val))

NetworkFailure ==
    /\ last.op = "Validate" /\ last.in # NoInput
    /\ \/ ch[last.caller].Type = HTTP01 /\ (last.in.net.err \/ last.in.net.StatusCode >= 400)
       \/ ch[last.caller].Type = DNS01 /\ last.in.net.err
       \/ ch[last.caller].Type = TLSALPN01 /\ last.in.net.err /\ last.in.net.dialErr.alert # 120

\* C6: a network-level failure never sets the status to invalid: the status
\* stays pending, a connection or dns error is recorded on the challenge, and
\* the challenge update is invoked (on its success the store holds the pending
\* challenge with the error).
C6_NetworkFailureStaysPending ==
    NetworkFailure
    => /\ ch[last.caller].Status = StatusPending
       /\ ch[last.caller].Error.Type \in {ErrorConnectionType, ErrorDNSType}
       /\ Did(last.ops, "UpdateChallenge")
       /\ Wrote(last.ops, "UpdateChallenge") => db = ch[last.caller]
       /\ db.Status = StatusPending

C6_Witness ==
    /\ NetworkFailure
    /\ ch[last.caller].Type = TLSALPN01
    /\ tlsAlert(last.in.net.dialErr) = 40
    /\ db.Status = StatusPending /\ db.Error.Type = ErrorConnectionType

AzWriteFailed(ops) == \E i \in 1..Len(ops) : ops[i].op = "UpdateAuthorization" /\ ~ops[i].ok

\* the authorization update, if made, precedes the challenge update
AzBeforeCh(ops) ==
    \A i, j \in 1..Len(ops) :
        (ops[i].op = "UpdateAuthorization" /\ ops[j].op = "UpdateChallenge") => i < j

C8_FingerprintIffValid ==
    [][\A c \in Callers :
        (ValidateStep(c) /\ ch[c].Type = DEVICEATTEST01)
        => (Wrote(last'.ops, "UpdateAuthorization")
            <=> (db.Status # StatusValid /\ db'.Status = StatusValid))]_vars

\* C9 (as stated): whenever Validate returns an error, the challenge's status,
\* error and validated_at are the same as before the call; the error field
\* changes only in calls that invoke the challenge update.
C9_BubbledErrorLeavesChallenge ==
    [][\A c \in Callers :
        ValidateStep(c)
        => /\ last'.ret # NoError
              => /\ ch'[c].Status = ch[c].Status
                 /\ ch'[c].Error = ch[c].Error
                 /\ ch'[c].ValidatedAt = ch[c].ValidatedAt
           /\ ch'[c].Error # ch[c].Error => Did(last'.ops, "UpdateChallenge")]_vars

\* C9 (amended): whenever Validate returns an error, the stored challenge and
\* the stored authorization's effect on it are as before the call (status,
\* error, validated_at unchanged in the store), and the caller's challenge
\* object is unchanged unless the returned error is a failed store write, in
\* which case the object already carries the new status, error or
\* validated_at; the error field changes only in calls that invoke the
\* challenge update.
C9_BubbledErrorLeavesStoredChallenge ==
    [][\A c \in Callers :
        ValidateStep(c)
        => /\ last'.ret # NoError
              => /\ db' = db
                 /\ ch'[c] # ch[c]
                    => (FailedWrite(last'.ops) /\ last'.ret.Type = ErrorServerInternalType)
           /\ ch'[c].Error # ch[c].Error => Did(last'.ops, "UpdateChallenge")]_vars

\* a failed challenge update bubbled up after the caller's object had taken
\* the error and the invalid status
C9_Witness ==
    /\ last.op = "Validate" /\ last.ret # NoError
    /\ FailedWrite(last.ops)
    /\ ch[last.caller].Status = StatusInvalid /\ ch[last.caller].Error # NoError
    /\ db.Status = StatusPending /\ db.Error = NoError

\* C10 (as stated): when two Validate calls race on one challenge, each having
\* observed it pending, under a last-write-wins store, once valid or invalid is
\* committed no later write returns the stored status to pending.
C10_CommittedStatusStaysTerminal ==
    [][db.Status \in Terminal => db'.Status \in Terminal]_vars

\* the latest call ran with a context cancelled during its network call
Cancelled == last.op = "Validate" /\ last.in # NoInput /\ "ctx" \in DOMAIN last.in

\* C11 (as stated): when the caller's context is cancelled during a Validate
\* call, so that the in-flight network call fails, the challenge is left
\* untouched: status, error and validated_at are unchanged and no challenge
\* update is written to the store.
C11_CancellationLeavesChallenge ==
    [][\A c \in Callers :
        (ValidateStep(c) /\ "ctx" \in DOMAIN last'.in)
        => /\ ch'[c].Status = ch[c].Status
           /\ ch'[c].Error = ch[c].Error
           /\ ch'[c].ValidatedAt = ch[c].ValidatedAt
           /\ ~Did(last'.ops, "UpdateChallenge")
           /\ db' = db]_vars

\* C11 (amended): when the caller's context is cancelled during a Validate
\* call, so that the in-flight network call fails, the failure is handled as
\* any other network failure: status and validated_at are unchanged (pending,
\* empty), but a connection or dns error is recorded on the challenge and the
\* challenge update is invoked; when that write succeeds the store holds the
\* pending challenge with the error, otherwise an internal error is returned.
C11_CancellationRecordedAsTransient ==
    [][\A c \in Callers :
        (ValidateStep(c) /\ "ctx" \in DOMAIN last'.in)
        => /\ ch'[c].Status = StatusPending /\ ch[c].Status = StatusPending
           /\ ch'[c].ValidatedAt = ch[c].ValidatedAt
           /\ ch'[c].Error.Type \in {ErrorConnectionType, ErrorDNSType}
           /\ Did(last'.ops, "UpdateChallenge")
           /\ IF Wrote(last'.ops, "UpdateChallenge")
              THEN db' = ch'[c] /\ last'.ret = NoError
              ELSE db' = db /\ last'.ret.Type = ErrorServerInternalType]_vars

C11_Witness ==
    /\ Cancelled
    /\ ch[last.caller].Type = HTTP01
    /\ db.Status = StatusPending /\ db.Error.Type = ErrorConnectionType
    /\ created.Error = NoError

\* C12: when a store update made by Validate fails (the challenge update on a
\* success path, the challenge update inside storeError, or the authorization
\* update), Validate returns an internal server error, not success.
C12_StoreFailureReturnsISE ==
    (last.op = "Validate" /\ FailedWrite(last.ops))
    => /\ last.ret # NoError
       /\ last.ret.Type = ErrorServerInternalType
       /\ last.ret.Status = 500

\* the challenge update of a success path failed
C12_Witness ==
    /\ last.op = "Validate" /\ FailedWrite(last.ops)
    /\ ch[last.caller].Type = TLSALPN01
    /\ ch[last.caller].Status = StatusValid
    /\ last.ret.Type = ErrorServerInternalType
    /\ db.Status = StatusPending

\* the hardware identifiers the format verifier of the latest call extracted
\* from the attestation (none when the verifier extracts none)
AttestedIdentifiers ==
    LET data == AttestationFormat(last.in.prov, ch[last.caller], last.in.jwk,
                                  last.in.payload.att).data
    IN  {data.SerialNumber, data.UDID} \ {<<>>}

\* C13 (as stated): for each of the formats apple, step and tpm, a
\* device-attest-01 challenge becomes valid only if a hardware identifier
\* extracted from the attestation equals the challenge value.
C13_ValidOnlyIfIdentifierMatches ==
    (CalledPending(DEVICEATTEST01) /\ ch[last.caller].Status = StatusValid)
    => ch[last.caller].Value \in AttestedIdentifiers

\* C14 (as stated): for every token and JWK, the digest the tpm verifier
\* compares with certInfo.extraData (keyAuthDigest) equals SHA-256 of the key
\* authorization KeyAuthorization(token, jwk) returns, the digest dns-01 and
\* tls-alpn-01 use.
C14_KeyAuthDigestIsKeyAuthorizationDigest ==
    (/\ CalledPending(DEVICEATTEST01)
     /\ last.in.payload.att.Format = "tpm"
     /\ KeyAuthorization(ch[last.caller].Token, last.in.jwk).err = NoError)
    => keyAuthDigest(last.in.jwk, ch[last.caller].Token).val
         = SHA256(KeyAuthorization(ch[last.caller].Token, last.in.jwk).val)

\* the latest call was an http-01 validation whose GET returned a status
\* below 400 and a readable body, with a computable key authorization
HttpAnswered ==
    /\ CalledPending(HTTP01)
    /\ ~last.in.net.err /\ last.in.net.StatusCode < 400 /\ ~last.in.net.readErr
    /\ KeyAuthorization(ch[last.caller].Token, last.in.jwk).err = NoError

\* body is x between leading and trailing white space
IsPadded(body, x) ==
    \E i, j \in 0..Len(body) :
        /\ i + Len(x) + j = Len(body)
        /\ SubSeq(body, i + 1, i + Len(x)) = x
        /\ \A k \in 1..i : body[k] \in {" ", "\n", "\t", "\r"}
        /\ \A k \in (Len(body) - j + 1)..Len(body) : body[k] \in {" ", "\n", "\t", "\r"}

\* C15: for http-01, when the GET succeeds with a status below 400, a body
\* that differs from the key authorization after trimming white space makes
\* the challenge invalid with a rejectedIdentifier error, and a body that
\* equals it makes the challenge valid with the error cleared and
\* validated_at set.
C15_Http01BodyDecides ==
    HttpAnswered
    => IF IsPadded(last.in.net.Body, KeyAuthorization(ch[last.caller].Token, last.in.jwk).val)
       THEN /\ ch[last.caller].Status = StatusValid
            /\ ch[last.caller].Error = NoError
            /\ ch[last.caller].ValidatedAt = FormatRFC3339("t1")
       ELSE /\ ch[last.caller].Status = StatusInvalid
            /\ ch[last.caller].Error.Type = ErrorRejectedIdentifierType
            /\ ch[last.caller].ValidatedAt = ""

\* a body with a trailing newline validated the challenge
C15_Witness ==
    /\ HttpAnswered
    /\ last.in.net.Body = KA1 \o <<"\n">>
    /\ db.Status = StatusValid /\ db.Error = NoError /\ db.ValidatedAt # ""
    /\ last.ret = NoError

\* the latest call was a tls-alpn-01 validation whose dial failed
DialFailed == CalledPending(TLSALPN01) /\ last.in.net.err

\* the dial error reports a TLS alert, as crypto/tls does with a net.OpError
\* whose Err is the alert, and the alert is 120
ReportsAlert120(e) == e.isOpError /\ e.kind = "uint8" /\ e.alert = 120

\* C16: for tls-alpn-01, a dial failure whose underlying TLS alert is 120
\* (no_application_protocol) sets the challenge invalid, and every other dial
\* failure leaves it pending with a recorded connection error.
C16_DialFailureClassified ==
    DialFailed
    => IF ReportsAlert120(last.in.net.dialErr)
       THEN /\ ch[last.caller].Status = StatusInvalid
            /\ ch[last.caller].Error.Type = ErrorRejectedIdentifierType
       ELSE /\ ch[last.caller].Status = StatusPending
            /\ ch[last.caller].Error.Type = ErrorConnectionType

C16_Witness ==
    /\ DialFailed
    /\ last.in.net.dialErr.alert = 120 /\ last.in.net.dialErr.isOpError
    /\ db.Status = StatusInvalid
    /\ db.Error.Type = ErrorRejectedIdentifierType

\* the latest call was a tls-alpn-01 validation whose connection succeeded
\* with a negotiated protocol other than acme-tls/1
ALPNMismatch ==
    /\ CalledPending(TLSALPN01)
    /\ ~last.in.net.err
    /\ last.in.net.NegotiatedProtocol # "acme-tls/1"

ALPNDetail == "cannot negotiate ALPN acme-tls/1 protocol for tls-alpn-01 challenge"

\* C17 (as stated): for tls-alpn-01, whenever the connection succeeds and the
\* negotiated protocol is not exactly acme-tls/1, the challenge becomes invalid
\* and the recorded error is the ALPN-negotiation error, whatever certificates
\* the peer presented.
C17_ALPNErrorWhateverCertificates ==
    ALPNMismatch
    => /\ ch[last.caller].Status = StatusInvalid
       /\ ch[last.caller].Error.Detail = ALPNDetail

\* C17 (amended): for tls-alpn-01, whenever the connection succeeds and the
\* negotiated protocol is not exactly acme-tls/1, the challenge becomes invalid
\* with a rejectedIdentifier error; the error is the ALPN-negotiation error
\* when the peer presented at least one certificate, and the no-certificates
\* error when it presented none (that check comes first).
C17_ALPNErrorUnlessNoCertificates ==
    ALPNMismatch
    => /\ ch[last.caller].Status = StatusInvalid
       /\ ch[last.caller].Error.Type = ErrorRejectedIdentifierType
       /\ ch[last.caller].Error.Detail =
             IF Len(last.in.net.PeerCertificates) = 0
             THEN "challenge resulted in no certificates"
             ELSE ALPNDetail

C17_Witness ==
    /\ ALPNMismatch
    /\ last.in.net.NegotiatedProtocol = "h2"
    /\ Len(last.in.net.PeerCertificates) = 0
    /\ db.Status = StatusInvalid
    /\ db.Error.Detail = "challenge resulted in no certificates"

\* the error the format verifier of the latest call returned
VerifierError ==
    AttestationFormat(last.in.prov, ch[last.caller], last.in.jwk, last.in.payload.att).err

\* the latest call was a device-attest-01 validation that reached a format
\* verifier (apple, step or tpm), and the verifier failed
VerifierFailed ==
    /\ CalledPending(DEVICEATTEST01)
    /\ last.ops[1].ok
    /\ ~last.in.payload.jsonErr /\ last.in.payload.Error = ""
    /\ ~last.in.payload.b64Err /\ ~last.in.payload.cborErr
    /\ IsAttestationFormatEnabled(last.in.prov, last.in.payload.att.Format)
    /\ last.in.payload.att.Format \in {"apple", "step", "tpm"}
    /\ VerifierError # NoError

NoStoreWrite(ops) ==
    \A i \in 1..Len(ops) : ops[i].op \notin {"UpdateChallenge", "UpdateAuthorization"}

\* C18: for device-attest-01, a failure returned by a format verifier is
\* classified: a structured ACME error with HTTP status 500 is returned to the
\* caller without any store write; every other structured ACME error is
\* recorded on the challenge and sets it invalid; an error that is no ACME
\* error is returned as an internal server error and the challenge stays
\* pending.
C18_VerifierFailureClassified ==
    VerifierFailed
    => IF VerifierError.Type \in ACMEErrorTypes /\ VerifierError.Status = 500
       THEN /\ last.ret = VerifierError
            /\ NoStoreWrite(last.ops)
            /\ ch[last.caller].Status = StatusPending
            /\ ch[last.caller].Error = NoError
       ELSE IF VerifierError.Type \in ACMEErrorTypes
       THEN /\ ch[last.caller].Status = StatusInvalid
            /\ ch[last.caller].Error = VerifierError
            /\ Did(last.ops, "UpdateChallenge")
            /\ ~Did(last.ops, "UpdateAuthorization")
       ELSE /\ last.ret.Type = ErrorServerInternalType
            /\ NoStoreWrite(last.ops)
            /\ ch[last.caller].Status = StatusPending

\* a tpm verifier without attestation roots: an internal error, re-raised
C18_Witness ==
    /\ VerifierFailed
    /\ last.in.payload.att.Format = "tpm"
    /\ VerifierError.Status = 500
    /\ last.ret = VerifierError
    /\ db.Status = StatusPending /\ db.Error = NoError

\* the latest call was a device-attest-01 validation that decoded an
\* attestation object whose format is not enabled, or is enabled but is none of
\* apple, step, tpm
FormatRefused ==
    /\ CalledPending(DEVICEATTEST01)
    /\ last.ops[1].ok
    /\ ~last.in.payload.jsonErr /\ last.in.payload.Error = ""
    /\ ~last.in.payload.b64Err /\ ~last.in.payload.cborErr
    /\ \/ last.in.payload.att.Format \notin last.in.prov.enabled
       \/ last.in.payload.att.Format \notin {"apple", "step", "tpm"}

\* C19: for device-attest-01, an attestation object whose fmt is not in the
\* provisioner's enabled formats, or is enabled but not one of apple, step,
\* tpm, sets the challenge invalid with a badAttestationStatement error and
\* never writes the authorization.
C19_FormatRefusedIsTerminal ==
    FormatRefused
    => /\ ch[last.caller].Status = StatusInvalid
       /\ ch[last.caller].Error.Type = ErrorBadAttestationStatementType
       /\ Did(last.ops, "UpdateChallenge")
       /\ ~Did(last.ops, "UpdateAuthorization")

\* an enabled format that has no verifier
C19_Witness ==
    /\ FormatRefused
    /\ last.in.payload.att.Format = "packed"
    /\ last.in.payload.att.Format \in last.in.prov.enabled
    /\ db.Status = StatusInvalid
    /\ db.Error.Detail = "unexpected attestation object format"

\* the fields of a challenge that identify it
Identity(c) ==
    [ID |-> c.ID, AccountID |-> c.AccountID, AuthorizationID |-> c.AuthorizationID,
     Type |-> c.Type, Value |-> c.Value, Token |-> c.Token]

\* C20: no Validate call, whatever its outcome, changes the challenge's id,
\* account id, authorization id, type, value or token, in the caller's object
\* or in the store.
C20_IdentityUnchanged ==
    [][\A c \in Callers :
        ValidateStep(c)
        => /\ Identity(ch'[c]) = Identity(ch[c])
           /\ Identity(db') = Identity(db)]_vars

\* a wildcard dns-01 challenge was validated and written; the lookup used the
\* name without the wildcard label
C20_Witness ==
    /\ last.op = "Validate" /\ last.in # NoInput
    /\ db.Type = DNS01 /\ db.Status = StatusValid
    /\ last.ops[1].arg = <<"_acme-challenge.">> \o TrimWildcard(db.Value)
    /\ db.Value = ValueWildcard
    /\ Identity(db) = Identity(created)

Connected == CalledPending(TLSALPN01) /\ ~last.in.net.err

\* the first certificate the peer of the latest call presented
PeerLeaf == last.in.net.PeerCertificates[1]

\* SHA-256 of the key authorization of the latest call
ExpectedDigest == SHA256(KeyAuthorization(ch[last.caller].Token, last.in.jwk).val)

\* the leaf carries the id-pe-acmeIdentifier extension, critical, whose value
\* is one DER OCTET STRING of 32 bytes equal to the digest, nothing after it
HasAcmeIdentifier(leaf, digest) ==
    \E i \in 1..Len(leaf.Extensions) :
        LET e == leaf.Extensions[i]
        IN  /\ e.Id = <<1, 3, 6, 1, 5, 5, 7, 1, 31>>
            /\ e.Critical
            /\ e.Value.tag = "OCTET STRING" /\ e.Value.rest = <<>>
            /\ ByteLen(e.Value.bytes) = 32
            /\ e.Value.bytes = digest

\* C22: a tls-alpn-01 challenge becomes valid only if the leaf certificate
\* carries the critical id-pe-acmeIdentifier extension whose value is a single
\* DER OCTET STRING of 32 bytes equal to SHA256(key authorization); a
\* non-critical, malformed, wrong-length, unequal, obsolete-only or absent
\* extension sets the challenge invalid.
C22_ValidOnlyWithAcmeIdentifier ==
    Connected
    => /\ ch[last.caller].Status = StatusValid
          => /\ Len(last.in.net.PeerCertificates) > 0
             /\ HasAcmeIdentifier(PeerLeaf, ExpectedDigest)
       /\ (/\ KeyAuthorization(ch[last.caller].Token, last.in.jwk).err = NoError
           /\ Len(last.in.net.PeerCertificates) > 0
           /\ ~HasAcmeIdentifier(PeerLeaf, ExpectedDigest))
          => /\ ch[last.caller].Status = StatusInvalid
             /\ ch[last.caller].Error.Type = ErrorRejectedIdentifierType

\* a certificate with the digest of another account's key authorization
C22_Witness ==
    /\ Connected
    /\ last.in.jwk = "k1"
    /\ Len(last.in.net.PeerCertificates) > 0
    /\ PeerLeaf.Extensions = <<Ext(idPeAcmeIdentifier, TRUE, Der("OCTET STRING", SHA256(KA2), <<>>))>>
    /\ db.Status = StatusInvalid
    /\ db.Error.Detail = "incorrect certificate for tls-alpn-01 challenge: expected acmeValidationV1 extension value"

\* a name with its letters in lower case
LowerCase(name) ==
    [i \in DOMAIN name |-> IF name[i] = "EXAMPLE.COM" THEN "example.com" ELSE name[i]]

\* the SAN shape the challenge accepts: no DNS SAN and one IP SAN that is the
\* value's address, or one DNS SAN that is the value up to letter case
SANsBind(leaf, value) ==
    IF Len(leaf.DNSNames) = 0
    THEN /\ Len(leaf.IPAddresses) = 1
         /\ ParseIP(value) # <<>>
         /\ leaf.IPAddresses[1] = ParseIP(value)
    ELSE /\ Len(leaf.DNSNames) = 1
         /\ LowerCase(leaf.DNSNames[1]) = LowerCase(value)

\* C23: a tls-alpn-01 challenge becomes valid only if the leaf has no DNS SAN
\* and exactly one IP SAN equal to ParseIP(value), or else exactly one DNS SAN
\* equal to the value up to case; every other SAN shape sets it invalid.
C23_ValidOnlyWithBoundSAN ==
    Connected
    => /\ ch[last.caller].Status = StatusValid
          => /\ Len(last.in.net.PeerCertificates) > 0
             /\ SANsBind(PeerLeaf, ch[last.caller].Value)
       /\ (/\ Len(last.in.net.PeerCertificates) > 0
           /\ ~SANsBind(PeerLeaf, ch[last.caller].Value))
          => /\ ch[last.caller].Status = StatusInvalid
             /\ ch[last.caller].Error.Type = ErrorRejectedIdentifierType
             /\ db.Status = StatusInvalid \/ FailedWrite(last.ops)

\* a DNS-named value answered by a certificate that has only an IP SAN
C23_Witness ==
    /\ Connected
    /\ ch[last.caller].Value = ValueDNS
    /\ Len(last.in.net.PeerCertificates) > 0
    /\ PeerLeaf.DNSNames = <<>>
    /\ PeerLeaf.IPAddresses = <<IP4Bytes>>
    /\ last.in.net.NegotiatedProtocol = "acme-tls/1"
    /\ db.Status = StatusInvalid
    /\ db.Error.Type = ErrorRejectedIdentifierType

\* the latest call was a device-attest-01 validation whose attestation object
\* of the given format was decoded, enabled, and accepted by its verifier
Verified(format) ==
    /\ CalledPending(DEVICEATTEST01)
    /\ last.ops[1].ok
    /\ ~last.in.payload.jsonErr /\ last.in.payload.Error = ""
    /\ ~last.in.payload.b64Err /\ ~last.in.payload.cborErr
    /\ last.in.payload.att.Format = format
    /\ IsAttestationFormatEnabled(last.in.prov, format)
    /\ VerifierError = NoError

\* what the verifier of the latest call extracted
VerifierData ==
    AttestationFormat(last.in.prov, ch[last.caller], last.in.jwk, last.in.payload.att).data

NonceBound ==
    VerifierData.Nonce = <<>> \/ VerifierData.Nonce = SHA256(ch[last.caller].Token)

IdentifierBound ==
    ch[last.caller].Value \in {VerifierData.UDID, VerifierData.SerialNumber}

\* C24: for the apple format the challenge becomes valid only if the challenge
\* value equals the extracted udid or serial number and, when the leaf carries
\* a nonce, the nonce equals SHA256(token); a failure of either binding sets
\* the challenge invalid with badAttestationStatement and does not write the
\* authorization.
C24_AppleBindings ==
    Verified("apple")
    => /\ ch[last.caller].Status = StatusValid => (NonceBound /\ IdentifierBound)
       /\ ~(NonceBound /\ IdentifierBound)
          => /\ ch[last.caller].Status = StatusInvalid
             /\ ch[last.caller].Error.Type = ErrorBadAttestationStatementType
             /\ Did(last.ops, "UpdateChallenge")
             /\ ~Did(last.ops, "UpdateAuthorization")

\* a leaf whose identifier matches but whose nonce is the digest of another token
C24_Witness ==
    /\ Verified("apple")
    /\ IdentifierBound /\ ~NonceBound
    /\ db.Status = StatusInvalid
    /\ db.Error.Detail = "challenge token does not match"
    /\ azdb.Fingerprint = <<>>

\* C25: for the step format, when the attested YubiKey serial (the decimal
\* string of the integer in extension 1.3.6.1.4.1.41482.3.7) differs from the
\* challenge value, the challenge becomes invalid with a
\* badAttestationStatement error carrying one subproblem whose identifier is
\* of type permanent-identifier with the challenge value, and the
\* authorization is not written.
C25_StepSerialMismatch ==
    (Verified("step") /\ VerifierData.SerialNumber # ch[last.caller].Value)
    => /\ ch[last.caller].Status = StatusInvalid
       /\ ch[last.caller].Error.Type = ErrorBadAttestationStatementType
       /\ Len(ch[last.caller].Error.Subproblems) = 1
       /\ ch[last.caller].Error.Subproblems[1].IdType = "permanent-identifier"
       /\ ch[last.caller].Error.Subproblems[1].IdValue = ch[last.caller].Value
       /\ Did(last.ops, "UpdateChallenge")
       /\ ~Did(last.ops, "UpdateAuthorization")

\* serial 43 attested for the challenge value "42"
C25_Witness ==
    /\ Verified("step")
    /\ ch[last.caller].Value = <<"4", "2">>
    /\ VerifierData.SerialNumber = <<"4", "3">>
    /\ db.Status = StatusInvalid
    /\ Len(db.Error.Subproblems) = 1
    /\ db.Error.Subproblems[1].IdValue = <<"4", "2">>

\* the latest call was a device-attest-01 validation that reached the tpm
\* verifier with an ACME provisioner that supplies no attestation roots
TPMWithoutRoots ==
    /\ CalledPending(DEVICEATTEST01)
    /\ last.ops[1].ok
    /\ ~last.in.payload.jsonErr /\ last.in.payload.Error = ""
    /\ ~last.in.payload.b64Err /\ ~last.in.payload.cborErr
    /\ last.in.payload.att.Format = "tpm"
    /\ IsAttestationFormatEnabled(last.in.prov, "tpm")
    /\ last.in.prov.isACME
    /\ last.in.prov.roots = {}

\* the statement passes what the tpm verifier checks before it asks for the
\* roots: ver is "2.0" and x5c is a non-empty list of certificates that parse
WellFormedTPMStatement ==
    LET stmt == last.in.payload.att.AttStatement
    IN  /\ stmt.ver = "2.0"
        /\ stmt.x5cOk /\ Len(stmt.x5c) > 0
        /\ \A i \in 1..Len(stmt.x5c) : stmt.x5c[i].isBytes /\ stmt.x5c[i].parses

ReturnedISEUnwritten ==
    /\ last.ret.Type = ErrorServerInternalType
    /\ NoStoreWrite(last.ops)
    /\ ch[last.caller].Status = StatusPending
    /\ ch[last.caller].Error = NoError

\* C26 (as stated): for the tpm format, whenever the provisioner supplies no
\* attestation roots, validation returns an internal server error and the
\* challenge is left pending and unwritten, for every attestation statement.
C26_NoRootsAlwaysISE ==
    TPMWithoutRoots => ReturnedISEUnwritten

\* C26 (amended): for the tpm format with a provisioner that supplies no
\* attestation roots, a statement with ver "2.0" and a non-empty, well-formed
\* x5c ends in an internal server error with the challenge pending and
\* unwritten; a statement that fails one of those earlier checks sets the
\* challenge invalid with badAttestationStatement.
C26_NoRootsISEForWellFormedStatement ==
    TPMWithoutRoots
    => IF WellFormedTPMStatement
       THEN ReturnedISEUnwritten
       ELSE /\ ch[last.caller].Status = StatusInvalid
            /\ ch[last.caller].Error.Type = ErrorBadAttestationStatementType
            /\ Did(last.ops, "UpdateChallenge")
            /\ ~Did(last.ops, "UpdateAuthorization")

\* a well-formed statement meets the missing roots
C26_Witness ==
    /\ TPMWithoutRoots
    /\ WellFormedTPMStatement
    /\ last.ret.Detail = "failed getting tpm attestation root CAs"
    /\ db.Status = StatusPending

\* C27 (as stated): every error Validate records on a device-attest-01
\* challenge has type badAttestationStatement; rejectedIdentifier is recorded
\* only on http-01, dns-01 and tls-alpn-01 challenges.
C27_DeviceErrorsAreBadAttestationStatement ==
    [][\A c \in Callers :
        (ValidateStep(c) /\ ch[c].Type = DEVICEATTEST01 /\ ch'[c].Error # ch[c].Error)
        => ch'[c].Error.Type \in {"", ErrorBadAttestationStatementType}]_vars

\* C28: for device-attest-01 the authorization is loaded before the payload is
\* examined; a payload whose error field is non-empty sets the challenge
\* invalid without decoding attObj and without writing the authorization; if
\* loading the authorization fails, Validate returns an internal server error
\* and the challenge is untouched, even when the payload reports an error.
C28_AuthorizationLoadedFirst ==
    [][\A c \in Callers :
        (ValidateStep(c) /\ ch[c].Type = DEVICEATTEST01 /\ ch[c].Status = StatusPending)
        => /\ last'.ops[1].op = "GetAuthorization"
           /\ ~last'.ops[1].ok
              => /\ last'.ret.Type = ErrorServerInternalType
                 /\ Len(last'.ops) = 1
                 /\ ch' = ch /\ db' = db /\ azdb' = azdb
           /\ (last'.ops[1].ok /\ ~last'.in.payload.jsonErr /\ last'.in.payload.Error # "")
              => /\ ch'[c].Status = StatusInvalid
                 /\ ch'[c].Error.Detail = "payload contained error"
                 /\ last'.ops[2].op = "UpdateChallenge" /\ Len(last'.ops) = 2
                 /\ last'.ret.Detail \notin {"error base64 decoding attObj",
                                             "error unmarshalling CBOR"}
                 /\ azdb' = azdb]_vars

\* the payload reported an error and the authorization could not be loaded
C28_Witness ==
    /\ CalledPending(DEVICEATTEST01)
    /\ last.in.payload.Error # ""
    /\ ~last.ops[1].ok
    /\ last.ret.Detail = "error loading authorization"
    /\ db.Status = StatusPending /\ db.Error = NoError

\* the values written as IPv6 literals, the IPv4-mapped one included
IPv6Literals == {<<"2001:db8::1">>, <<"::ffff:192.0.2.5">>}

\* the host the claim describes for a value
BracketedHost(value) ==
    IF value \in IPv6Literals THEN <<"[">> \o value \o <<"]">> ELSE value

\* C29 (as stated): the http-01 URL host is the challenge value in square
\* brackets for every value that parses as an IPv6 address, IPv4-mapped IPv6
\* literals included, and the value verbatim for IPv4 literals and DNS names.
C29_IPv6HostBracketed ==
    CalledPending(HTTP01)
    => last.ops[1].arg = <<"http://">> \o BracketedHost(ch[last.caller].Value)
                         \o <<"/.well-known/acme-challenge/">> \o ch[last.caller].Token

\* each atom of a sequence followed by a dot
RECURSIVE Dotted(_)
Dotted(s) == IF s = <<>> THEN <<>> ELSE <<Head(s), ".">> \o Dotted(Tail(s))

\* the name the claim describes for each value in use: 192.0.2.5 reversed
\* under in-addr.arpa., the 32 nibbles of 2001:db8::1 reversed under ip6.arpa.
ExpectedSNI(value) ==
    CASE value \in {<<"192.0.2.5">>, <<"::ffff:192.0.2.5">>} ->
            <<"5", ".", "2", ".", "0", ".", "1", "9", "2", ".in-addr.arpa.">>
      [] value = <<"2001:db8::1">> ->
            Dotted(<<"1", "0", "0", "0", "0", "0", "0", "0",
                     "0", "0", "0", "0", "0", "0", "0", "0",
                     "0", "0", "0", "0", "0", "0", "0", "0",
                     "8", "b", "d", "0", "1", "0", "0", "2">>) \o <<"ip6.arpa.">>
      [] OTHER -> value

C31_RecordedFailureReturnsSuccess ==
    [][\A c \in Callers :
        (/\ ValidateStep(c)
         /\ ch[c].Status = StatusPending
         /\ Wrote(last'.ops, "UpdateChallenge")
         /\ ch'[c].Error # NoError)
        => /\ last'.ret = NoError
           /\ ch'[c].Status \in {StatusPending, StatusInvalid}
           /\ db'.Status = ch'[c].Status
           /\ db'.Error = ch'[c].Error]_vars

\* a transient failure was stored and the call returned success
C31_Witness ==
    /\ last.op = "Validate" /\ last.in # NoInput
    /\ Wrote(last.ops, "UpdateChallenge")
    /\ last.ret = NoError
    /\ db.Status = StatusPending
    /\ db.Error.Type = ErrorConnectionType

\* C32: for a pending challenge whose type is none of http-01, dns-01,
\* tls-alpn-01, device-attest-01, Validate returns an internal server error,
\* makes no network or store call and leaves the challenge unchanged (pending).
C32_UnknownTypeIsISE ==
    [][\A c \in Callers :
        (/\ ValidateStep(c)
         /\ ch[c].Status = StatusPending
         /\ ch[c].Type \notin {"http-01", "dns-01", "tls-alpn-01", "device-attest-01"})
        => /\ last'.ret.Type = ErrorServerInternalType
           /\ last'.ret.Status = 500
           /\ last'.ops = <<>>
           /\ ch' = ch /\ db' = db /\ azdb' = azdb]_vars

\* a call on a pending challenge of an unknown type
C32_Witness ==
    /\ last.op = "Validate" /\ last.in # NoInput
    /\ ch[last.caller].Type \notin {"http-01", "dns-01", "tls-alpn-01", "device-attest-01"}
    /\ last.ret.Detail = "unexpected challenge type"
    /\ ch[last.caller].Status = StatusPending
    /\ db.Status = StatusPending

\* C33 (as stated): when two Validate calls race on the same pending challenge
\* under a last-write-wins store, a stored status of valid is never later
\* overwritten with invalid, and a stored status of invalid is never later
\* overwritten with valid.
C33_TerminalStatusNeverFlips ==
    [][/\ db.Status = StatusValid => db'.Status # StatusInvalid
       /\ db.Status = StatusInvalid => db'.Status # StatusValid]_vars

\* the step is a BootstrapServer call
BootstrapStep == boot'.seq # boot.seq

\* C34: BootstrapServer assigns base.TLSConfig only on the path where it
\* returns the server without error; whenever it returns an error (TLSConfig
\* already set, bad token, sign-request, sign or TLS-config failure)
\* base.TLSConfig is unchanged, and a base whose TLSConfig is already set is
\* rejected before the token is parsed or any request is made to the CA.
C34_TLSConfigAssignedOnlyOnSuccess ==
    [][BootstrapStep
       => /\ base'.TLSConfig # boot'.before => (boot'.ret = "" /\ boot'.srv = "base")
          /\ boot'.ret # "" => (base'.TLSConfig = boot'.before /\ boot'.srv = "nil")
          /\ boot'.ret = "" => base'.TLSConfig = "bootstrapped"
          /\ boot'.before # "nil"
             => /\ boot'.ret = "server TLSConfig is already set"
                /\ boot'.calls = <<>>]_vars

\* a server the caller configured for TLS itself is refused and keeps its
\* configuration, though the token and the CA would have let the call succeed
C34_Witness ==
    /\ boot.seq = 1
    /\ boot.before = "own"
    /\ boot.token.parses /\ boot.token.sha = "sha" /\ boot.token.aud = <<"https://ca">>
    /\ boot.env.newClientOk /\ boot.env.signReqOk /\ boot.env.signOk /\ boot.env.tlsOk
    /\ boot.ret = "server TLSConfig is already set"
    /\ base.TLSConfig = "own"

\* the latest SCEP request was GetCACert and the authority returned its
\* certificates
GotCACertificates == scep.Operation = "GetCACert" /\ scep.ret = ""

\* C35 (as stated): the SCEP GetCACert response carries Content-Type
\* application/x-x509-ca-ra-cert when the authority holds more than one CA
\* certificate (a degenerate certificate chain is returned) and
\* application/x-x509-ca-cert when it holds exactly one; when it holds none,
\* the response is an HTTP 500 error.
C35_GetCACertContentType ==
    GotCACertificates
    => /\ (Len(scep.certs) > 1 /\ ~scep.degErr)
          => (scep.status = 200 /\ scep.ContentType = "application/x-x509-ca-ra-cert")
       /\ Len(scep.certs) = 1
          => (scep.status = 200 /\ scep.ContentType = "application/x-x509-ca-cert")
       /\ Len(scep.certs) = 0 => scep.status = 500

====
